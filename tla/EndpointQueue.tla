--------------------------- MODULE EndpointQueue ---------------------------
(***************************************************************************)
(* What a non-control endpoint promises to the USB class that uses it      *)
(* (usb_cdc_raw.h:45-70): buffers are submitted one by one, the host's     *)
(* transfers complete them in that order, each of them goes back to the    *)
(* application exactly once, and a dequeue hands back the youngest ones.   *)
(***************************************************************************)
EXTENDS Naturals, Sequences, SequencesExt

CONSTANT Buffers

VARIABLES queue,   \* the buffers the endpoint owns, oldest first
          app      \* the buffers the application owns

vars == <<queue, app>>

Init == queue = <<>> /\ app = Buffers

\* cdc_raw_read() or cdc_raw_write() submits a buffer.
Submit(b) ==
    /\ b \in app
    /\ queue' = Append(queue, b)
    /\ app' = app \ {b}

\* The host's transfer into or out of the oldest buffer is reported.
Complete ==
    /\ queue # <<>>
    /\ queue' = Tail(queue)
    /\ app' = app \cup {Head(queue)}

\* The buffers that no TRB refers to yet are given back with -ECONNABORTED.
Abort ==
    \E n \in 0..Len(queue) :
        /\ queue' = SubSeq(queue, 1, n)
        /\ app' = app \cup ToSet(SubSeq(queue, n + 1, Len(queue)))

Next == (\E b \in Buffers : Submit(b)) \/ Complete \/ Abort

Spec == Init /\ [][Next]_vars
=============================================================================
