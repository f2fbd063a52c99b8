------------------------------ MODULE MergedLog ------------------------------
(***************************************************************************)
(* What the logger promises: every source has a stream of messages, and the *)
(* log is a merge of the streams.  A source may extend its stream at any    *)
(* time; the log takes the next message of some source.  Nothing is said of *)
(* how the streams are interleaved.  <<s, k>> is the k-th message of s.     *)
(***************************************************************************)
EXTENDS Naturals, Sequences

CONSTANT Sources    \* those whose messages are merged

VARIABLES
    sent,           \* length of the stream of a source
    printed,        \* how much of the stream of a source is in the log
    log             \* the merged log

vars == <<sent, printed, log>>

Init ==
    /\ sent = [s \in Sources |-> 0]
    /\ printed = [s \in Sources |-> 0]
    /\ log = <<>>

Accept(s) ==
    /\ sent' = [sent EXCEPT ![s] = @ + 1]
    /\ UNCHANGED <<printed, log>>

Emit(s) ==
    /\ printed[s] < sent[s]
    /\ printed' = [printed EXCEPT ![s] = @ + 1]
    /\ log' = Append(log, <<s, printed'[s]>>)
    /\ UNCHANGED sent

Next == \E s \in Sources : Accept(s) \/ Emit(s)

Spec == Init /\ [][Next]_vars

===============================================================================
