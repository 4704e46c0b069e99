--------------------------- MODULE Configuration ---------------------------
(* Version specs: how a file inherits (config/loader.py), which mappings are  *)
(* a spec (version_spec.py and its sections), and the guards of each version  *)
(* (guards.py).                                                               *)
(*                                                                            *)
(* A mapping is a function from the paths of its leaves to scalars, and a     *)
(* list is a scalar.  Of the sections there are the leaves that a guard reads *)
(* and one that none does.  Fractions are in tenths.  What is absent, and a   *)
(* load that is refused, is the empty set.                                    *)
EXTENDS Integers, FiniteSets, SequencesExt, Functions

LOCAL INSTANCE TLC

-----------------------------------------------------------------------------
(* The loader.                                                                *)
Leaf(data, path) == {data[p] : p \in {path} \cap DOMAIN data}

\* Mutant of DeepMerge: a section is replaced as a whole.
ShallowMerge(base, delta) ==
    delta @@ Restrict(base, {p \in DOMAIN base : \A q \in DOMAIN delta : p[1] # q[1]})

\* What the delta has, with what no key of it is at, above or below.
DeepMerge(base, delta) ==
    delta @@ Restrict(base, {p \in DOMAIN base : \A q \in DOMAIN delta : ~IsPrefix(p, q) /\ ~IsPrefix(q, p)})

RECURSIVE ResolveInheritance(_, _, _)
ResolveInheritance(data, parents, seen) ==
    IF Leaf(data, <<"inherits">>) = {} THEN {data}
    ELSE UNION {{DeepMerge(parent, data) : parent \in ResolveInheritance(parents[id], parents, seen \cup {id})} :
                id \in (Leaf(data, <<"inherits">>) \ seen) \cap DOMAIN parents}

\* The siblings of a file that stand in its chain.
RECURSIVE Siblings(_, _, _)
Siblings(data, files, seen) ==
    IF Leaf(data, <<"inherits">>) = {} THEN {seen}
    ELSE UNION {Siblings(files[id], files, seen \cup {id}) : id \in (Leaf(data, <<"inherits">>) \ seen) \cap DOMAIN files}

-----------------------------------------------------------------------------
(* The schema: every key that must be there is, and no other.                 *)
KernelLeaves == [piecewise_constant |-> {"n_bins", "bin_scheme"}, piecewise_linear_interp |-> {"n_bins", "tail_mode"},
                 linear_fit_nonneg |-> {"n_bins", "membership"}]
SelectionLeaves == [min_z |-> {"smooth_z"}, max_weighted_corr |-> {"scope"}]
Params(kernel, selection) ==
    {<<"target", "horizon">>, <<"target", "grid">>, <<"target", "overlap_mode">>, <<"execution", "mode">>,
     <<"neutralization", "mechanism">>, <<"portfolio", "turnover_limit">>}
    \cup {<<"kernel", leaf>> : leaf \in KernelLeaves[kernel]}
    \cup {<<"selection", leaf>> : leaf \in SelectionLeaves[selection]}
Fractions == {<<"labels", "fractions", "value", part>> : part \in {"top", "middle", "bottom"}}

ModelValidates(data) ==
    \E kernel \in Leaf(data, <<"kernel", "type">>) \cap DOMAIN KernelLeaves,
       selection \in Leaf(data, <<"selection", "type">>) \cap DOMAIN SelectionLeaves :
        LET params == Params(kernel, selection)
            tagged(keys) == {p \o <<key>> : p \in params, key \in keys}
                            \cup {<<"labels", "fractions", key>> : key \in keys \ {"value"}}
            required == {<<"version_id">>, <<"kernel", "type">>, <<"selection", "type">>, <<"ensemble", "components">>}
                        \cup Fractions \cup tagged({"value", "prov", "src"})
        IN /\ required \subseteq DOMAIN data
           /\ DOMAIN data \subseteq required \cup {<<"inherits">>} \cup tagged({"assumption", "cr"})

-----------------------------------------------------------------------------
(* The guards.                                                                *)
Value(spec, section, leaf) == spec[<<section, leaf, "value">>]
Components(spec) == spec[<<"ensemble", "components">>]
OfType(spec, type) == SelectSeq(Components(spec), LAMBDA c : c.type = type)

LegalHorizonGrid == {<<"1M", "month_end">>, <<"3M", "month_end">>, <<"1W", "weekly">>, <<"4W", "weekly">>}
LegalInherits == [lasr_hc_2014 |-> "lasr_2014", lasr_hf_2014 |-> "lasr_2014", modernized |-> "nlasr_2020"]

GuardUniversal(spec) ==
    /\ FoldLeft(+, 0, [i \in 1 .. 3 |-> spec[<<"labels", "fractions", "value", <<"top", "middle", "bottom">>[i]>>]]) = 10
    /\ <<Value(spec, "target", "horizon"), Value(spec, "target", "grid")>> \in LegalHorizonGrid
    /\ Leaf(spec, <<"inherits">>) = Leaf(LegalInherits, spec[<<"version_id">>])

GuardP1Roster(spec) == OfType(spec, "hedge_backcast") = <<>> /\ Len(Components(spec)) = 3

GuardFourWithHedge(spec, metric, grain) ==
    LET hedges == OfType(spec, "hedge_backcast")
    IN Len(Components(spec)) = 4 /\ Len(hedges) = 1 /\ hedges[1].metric = metric /\ hedges[1].grain = grain

GuardP4Roster(spec) ==
    LET trailing == OfType(spec, "trailing_window")
    IN /\ Len(trailing) = 2 /\ trailing[1].periods # trailing[2].periods
       /\ Len(OfType(spec, "seasonal_same_month")) = 1 /\ OfType(spec, "previous_period") = <<>>

\* What a version pins: its horizon, kernel, selections and execution modes.
AnyMode == {"same_close", "one_day_lag", "next_open", "t_plus_k_moc"}
Pins(horizon, kernel, selections, modes) ==
    [horizon |-> horizon, kernel |-> kernel, selections |-> selections, modes |-> modes]
SpecGuards ==
    [nlasr_2012   |-> Pins("1M", "piecewise_constant", {"min_z"}, AnyMode),
     nlasr2_2013  |-> Pins("1M", "piecewise_constant", {"min_z"}, AnyMode),
     lasr_2014    |-> Pins("1M", "piecewise_linear_interp", {"min_z"}, AnyMode),
     lasr_hc_2014 |-> Pins("3M", "piecewise_linear_interp", {"min_z"}, AnyMode),
     lasr_hf_2014 |-> Pins("1W", "piecewise_linear_interp", {"min_z"}, {"next_open"}),
     nlasr_2020   |-> Pins("4W", "linear_fit_nonneg", {"max_weighted_corr"}, {"t_plus_k_moc"}),
     modernized   |-> Pins("4W", "linear_fit_nonneg", {"max_weighted_corr", "min_z"}, {"t_plus_k_moc"})]

GuardPins(spec) ==
    LET pins == SpecGuards[spec[<<"version_id">>]]
    IN /\ Value(spec, "target", "horizon") = pins.horizon
       /\ spec[<<"kernel", "type">>] = pins.kernel
       /\ spec[<<"selection", "type">>] \in pins.selections
       /\ Value(spec, "execution", "mode") \in pins.modes

GuardRoster(spec) ==
    CASE spec[<<"version_id">>] = "nlasr_2012" ->
             GuardP1Roster(spec) /\ Value(spec, "neutralization", "mechanism") = "none"
      [] spec[<<"version_id">>] = "nlasr2_2013" -> GuardFourWithHedge(spec, "backcast_ic_threshold", "month")
      [] spec[<<"version_id">>] \in {"lasr_2014", "lasr_hc_2014"} -> GuardFourWithHedge(spec, "bottom_half_model_ic", "month")
      [] spec[<<"version_id">>] = "lasr_hf_2014" -> GuardFourWithHedge(spec, "bottom_half_model_ic", "week")
      [] spec[<<"version_id">>] \in {"nlasr_2020", "modernized"} ->
             /\ GuardFourWithHedge(spec, "bottom_half_aggregate_pnl", "week") /\ GuardP4Roster(spec)
             /\ Value(spec, "portfolio", "turnover_limit") = "none"

RunGuards(spec) == GuardUniversal(spec) /\ GuardPins(spec) /\ GuardRoster(spec)

BuildVersionSpec(data, parents) ==
    {spec \in ResolveInheritance(data, parents, {}) :
        ModelValidates(spec) /\ spec[<<"version_id">>] \in DOMAIN SpecGuards /\ RunGuards(spec)}

LoadVersionSpec(id, files) ==
    UNION {BuildVersionSpec(files[id], Restrict(files, ids)) : ids \in Siblings(files[id], files, {})}
=============================================================================
