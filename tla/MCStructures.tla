----------------------------- MODULE MCStructures -----------------------------
(***************************************************************************)
(* The data structures the commands stand on, each in behaviours of its    *)
(* own: `subject' says which one a behaviour is about.                     *)
(***************************************************************************)
EXTENDS LinkedList, SortedSet, Scan, Resp

CONSTANTS v1, v2, k1, k2, k3, k4

VARIABLE subject

all == <<vars, zvars, svars, rvars, subject>>

MCInit == Init /\ InitZSet /\ InitScan /\ InitResp /\ subject \in {"list", "zset", "scan", "resp"}

ListNext == subject = "list" /\ Next     /\ UNCHANGED <<zvars, svars, rvars, subject>>
ZSetNext == subject = "zset" /\ NextZSet /\ UNCHANGED <<vars, svars, rvars, subject>>
ScanNext == subject = "scan" /\ NextScan /\ UNCHANGED <<vars, zvars, rvars, subject>>
RespNext == subject = "resp" /\ NextResp /\ UNCHANGED <<vars, zvars, svars, subject>>

ListStep == subject = "list" /\ Step /\ UNCHANGED <<zvars, svars, rvars, subject>>
ScanCall == subject = "scan" /\ Call /\ UNCHANGED <<vars, zvars, rvars, subject>>

MCSpec == MCInit /\ [][ListNext \/ ZSetNext \/ ScanNext \/ RespNext]_all /\ WF_all(ListStep) /\ WF_all(ScanCall)

Indices == {-3, 0, 2}
Matches == {Key, {k1, k2}}

\* Bytes that look like the protocol, and none.
Nasty == {<< >>, <<"CR", "LF">>, <<"LF", "*">>}
PlainLines == {<<"O", "K">>}
Small == {-1, 7}
Typed == {<<"a">>, <<" ">>}

=============================================================================
