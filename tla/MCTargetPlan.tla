---------------------------- MODULE MCTargetPlan ----------------------------
(* Instances of TargetPlan for TLC: files of up to three lines. *)
EXTENDS TargetPlan

Seg(lo, size) == [lo |-> lo, size |-> size]
Pair  == Seg(0, 2)    \* a /31
Quad  == Seg(0, 4)    \* a /30 around it; 3 is its broadcast address
Apart == Seg(4, 2)    \* overlaps neither

\* Lines of the file; host bits in a segment are for the parser to drop.
RichLine(seg, ip, port, decision, reason) ==
    [complete |-> TRUE, src |-> Seg(9, 1), srcSeg |-> Seg(8, 2), sel |-> Seg(ip, 1), seg |-> seg,
     protocol |-> "tcp", decision |-> decision, port |-> port, reason |-> reason]
BasicLine(seg, sel, port) == [seg |-> seg, sel |-> sel, port |-> port]

RichLines ==
    {RichLine(d[1], d[2], p, d[3], d[4]) :
        d \in {<<Pair, 0, "accept", "">>, <<Pair, 1, "accept", "PRECHECK_ALLOW_ALL">>, <<Pair, 1, "deny", "">>,
               <<Quad, 0, "accept", "">>, <<Quad, 2, "accept", "PRECHECK_ALLOW_ALL">>, <<Quad, 0, "deny", "">>,
               <<Seg(1, 4), 3, "accept", "">>, <<Apart, 4, "accept", "PRECHECK_ALLOW_ALL">>}, p \in {1, 2}}
BadLines ==
    LET good == RichLine(Pair, 0, 1, "accept", "") IN
    {[good EXCEPT !.complete = FALSE], [good EXCEPT !.src = Malformed], [good EXCEPT !.sel = Malformed],
     [good EXCEPT !.srcSeg = Malformed], [good EXCEPT !.seg = Malformed], [good EXCEPT !.src = Seg(1, 1)],
     [good EXCEPT !.sel = Seg(4, 1)], [good EXCEPT !.protocol = "udp"], [good EXCEPT !.decision = "maybe"],
     [good EXCEPT !.port = 0]}
FallbackLines ==
    {BasicLine(Pair, Seg(0, 1), 0), BasicLine(Pair, Seg(1, 2), 0), BasicLine(Quad, Seg(0, 2), 0),
     BasicLine(Quad, Seg(2, 1), 0), BasicLine(Quad, Quad, 0), BasicLine(Apart, Seg(4, 1), 0),
     BasicLine(Pair, Seg(2, 1), 0)}
RowPortLines ==
    {BasicLine(Pair, Seg(0, 1), 1), BasicLine(Pair, Pair, 2), BasicLine(Pair, Seg(1, 1), 0),
     BasicLine(Apart, Seg(5, 1), 1), BasicLine(Apart, Apart, 2), BasicLine(Apart, Apart, 0)}

File(rich, lines) == [rich |-> rich, lines |-> lines]
UpTo(S, n) == UNION {[1..k -> S] : k \in 0..n}

RichFiles     == {File(TRUE, l) : l \in UpTo(RichLines, 2) \cup [1..3 -> {r \in RichLines : r.port = 1 /\ r.seg \in {Pair, Quad}}]}
                 \cup {File(TRUE, <<b>> \o l) : b \in BadLines, l \in UpTo({RichLine(Pair, 0, 1, "accept", "")}, 1)}
FallbackFiles == {File(FALSE, l) : l \in UpTo(FallbackLines, 3)}
RowPortFiles  == {File(FALSE, l) : l \in UpTo(RowPortLines, 3)}

\* Two segments whose sizes add up to more than the integer width.
WideFile      == File(FALSE, <<BasicLine(Seg(0, 8), Seg(0, 8), 0), BasicLine(Seg(8, 8), Seg(8, 8), 0)>>)

NoLimits == [count |-> 0, bytes |-> 0]
Listed(column, lines) == [column |-> column, lines |-> lines]
Input(file, ports, dead) ==
    [file |-> file, statBytes |-> 2, bytes |-> 2, hash |-> "collide", ports |-> ports,
     dead |-> dead, list |-> Listed("pinged", <<>>), limits |-> NoLimits]

MCInputs ==
    {Input(f, <<>>, {}) : f \in RichFiles} \cup {Input(File(TRUE, l), <<>>, {1}) : l \in UpTo(RichLines, 2)}
    \cup {Input(f, <<2, 1, 2>>, {0}) : f \in FallbackFiles}
    \cup {Input(f, <<1, 2, 1, 2>>, {}) : f \in {File(FALSE, <<l>>) : l \in FallbackLines}}
    \cup {Input(f, <<1>>, {}) : f \in RowPortFiles} \cup {Input(File(FALSE, l), <<>>, {}) : l \in UpTo(RowPortLines, 2)}
    \cup {[Input(File(TRUE, <<r>>), <<>>, {}) EXCEPT !.statBytes = s[1], !.bytes = s[2], !.limits.count = c, !.limits.bytes = g]
            : r \in RichLines, s \in {<<1, 2>>, <<3, 3>>, <<2, 4>>, <<4, 4>>}, c \in {0, 2, 3}, g \in {0, 5, 15}}
    \cup {Input(File(FALSE, <<l>>), <<1, 3>>, {}) : l \in FallbackLines}
    \cup {[Input(WideFile, <<1>>, {}) EXCEPT !.limits.count = c] : c \in {0, 8}}
    \cup {[Input(f, <<1, 2>>, {}) EXCEPT !.hash = "spread", !.limits.count = c] : f \in FallbackFiles, c \in {0, 4}}
    \cup {[Input(File(TRUE, <<r>>), <<>>, b[1]) EXCEPT !.list = b[2]] : r \in RichLines,
            b \in {<<{1}, Listed("ip", <<Seg(1, 1), Blank, Seg(1, 1)>>)>>, <<{}, Listed("none", <<>>)>>,
                   <<{}, Listed("name", <<>>)>>, <<{1}, Listed("ip", <<Seg(1, 1), Malformed>>)>>}}
    \cup {Input(f, <<1>>, {0, 1}) : f \in {File(FALSE, l) : l \in UpTo(FallbackLines, 1)} \cup {File(TRUE, l) : l \in UpTo(RichLines, 1)}}

\* Rows with ports of their own in two segments that overlap.
RowPortInputs ==
    {Input(File(FALSE, <<BasicLine(Pair, Seg(0, 1), 1), BasicLine(Pair, Seg(1, 1), 2),
                         BasicLine(Quad, Pair, 2), BasicLine(Quad, Seg(0, 1), 1)>>), <<>>, {})}

MCCommandLimits == {[count |-> Nil, bytes |-> Nil], [count |-> 3, bytes |-> Nil], [count |-> 3, bytes |-> 0]}
=============================================================================
