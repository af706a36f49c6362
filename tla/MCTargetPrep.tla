---------------------------- MODULE MCTargetPrep ----------------------------
(* Instances of TargetPrep for TLC: two opened targets, segments that nest. *)
EXTENDS TargetPrep, MCTargetPlan

Host(a) == Seg(a, 1)
CSV(lines) == [columns |-> TRUE, lines |-> lines]
BadCSVs == {[columns |-> FALSE, lines |-> <<>>], CSV(<<Nil>>)}

Cleaned(seg, status) == [fab |-> "east", seg |-> seg, status |-> status]
Elsewhere(seg) == [fab |-> "west", seg |-> seg, status |-> "close"]

Source ==
    [kind |-> "targets", input |-> Input(File(TRUE, <<>>), <<>>, {}),
     opened |-> CSV(<<[host |-> Host(0), port |-> 1], [host |-> Host(2), port |-> 2]>>),
     list |-> CSV(<<Quad, Malformed, Seg(1, 2)>>), services |-> CSV(<<>>),
     cleaned |-> CSV(<<Cleaned(Pair, "close"), Elsewhere(Quad), Cleaned(Malformed, "close"), Cleaned(Quad, "open")>>),
     policy |-> CSV(<<[seg |-> Seg(0, 8), status |-> "deny"], [seg |-> Malformed, status |-> "accept"]>>),
     fab |-> [name |-> "east", flaws |-> {}], dns |-> <<>>]

Targets == {[host |-> h, port |-> p] : h \in {Host(0), Host(1), Host(2), Host(3), Malformed}, p \in {0, 1}}

TargetSources ==
    {[Source EXCEPT !.opened = CSV(<<l, [host |-> Host(2), port |-> 2]>>), !.list = CSV(s), !.cleaned = CSV(c)] :
        l \in Targets,
        s \in {<<>>, <<Quad, Pair>>, <<Pair, Quad>>, <<Seg(0, 8), Seg(3, 4), Seg(1, 2)>>},
        c \in {<<>>, <<Cleaned(Pair, "close"), Elsewhere(Quad)>>, <<Cleaned(Seg(1, 4), "close")>>,
               <<Cleaned(Seg(2, 2), "close"), Cleaned(Pair, "open")>>}}

FaultySources ==
    {[Source EXCEPT !.list = b] : b \in BadCSVs} \cup {[Source EXCEPT !.services = b] : b \in BadCSVs}
    \cup {[Source EXCEPT !.cleaned = b] : b \in BadCSVs} \cup {[Source EXCEPT !.opened = b] : b \in BadCSVs}
    \cup {[Source EXCEPT !.policy = b] : b \in BadCSVs \cup {CSV(<<[seg |-> Malformed, status |-> "deny"]>>)}}
    \cup {Source, [Source EXCEPT !.fab.flaws = {"separator"}],
          [Source EXCEPT !.opened = CSV(<<[host |-> Host(2), port |-> 1], Nil>>)],
          [Source EXCEPT !.services = CSV(<<[port |-> 1, label |-> "http"], [port |-> 1, label |-> ""],
                                            [port |-> 2, label |-> "ssh"]>>)]}

TableSources ==
    {[Source EXCEPT !.kind = "table", !.opened = CSV(lines), !.dns = [n \in {Host(20), Host(21)} |-> IF n = Host(20) THEN Host(1) ELSE Malformed]] :
        lines \in {<<>>} \cup
            {<<[pass |-> p, host |-> h, ports |-> ps]>> :
                p \in {"FALSE", "TRUE"}, h \in {Host(0), Host(5), Host(20), Host(21), Nil},
                ps \in {<<1, 2>>, <<1, 0, 3>>, <<1, -1>>, <<0>>}}}
    \cup {[Source EXCEPT !.kind = "table", !.opened = b] : b \in BadCSVs}

PrepSources == TargetSources \cup FaultySources \cup TableSources
=============================================================================
