------------------------------ MODULE DataQueue ------------------------------
(***************************************************************************)
(* What the fifo of queues/fifos/fifo.c promises: a sequence.  Data comes  *)
(* out in the order it went in, a call that fails changes nothing, and     *)
(* fi_destroy hands each element that is left to the destructor, once and  *)
(* in order.                                                               *)
(***************************************************************************)
EXTENDS Sequences

CONSTANT Data

VARIABLES contents, reply

Reply(e, s) == [err |-> e, data |-> s]

Init == contents = << >> /\ reply = Reply("ok", << >>)

Enq ==
    \E d \in Data :
        /\ contents' = Append(contents, d)
        /\ reply' = Reply("ok", << >>)

NoMemory ==
    /\ reply' = Reply("ENOMEM", << >>)
    /\ UNCHANGED contents

Deq ==
    /\ contents # << >>
    /\ contents' = Tail(contents)
    /\ reply' = Reply("ok", <<Head(contents)>>)

DeqEmpty ==
    /\ contents = << >>
    /\ reply' = Reply("ENOENT", << >>)
    /\ UNCHANGED contents

Destroy ==
    /\ contents' = << >>
    /\ reply' = Reply("ok", contents)

Next == Enq \/ NoMemory \/ Deq \/ DeqEmpty \/ Destroy

Spec == Init /\ [][Next]_<<contents, reply>>

=============================================================================
