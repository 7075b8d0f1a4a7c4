----------------------------- MODULE MessageFifo -----------------------------
(***************************************************************************)
(* What the IPC layer promises its callers: every open endpoint is a FIFO  *)
(* of at most Depth messages.  A send to a full endpoint is refused and    *)
(* counted, every other refused call changes nothing, and a message is     *)
(* received as the bytes it had when it was sent.                          *)
(***************************************************************************)
EXTENDS Naturals, Sequences

CONSTANTS Endpoints,   \* endpoint identifiers
          Depth,       \* capacity of an endpoint
          Contents,    \* what a message can carry
          CountMod     \* modulus of the refusal counter

VARIABLES open,        \* the endpoints handed out
          channel,     \* channel[e]: the messages in transit, oldest first
          refused,     \* refused[e]: sends refused because e was full
          delivered    \* what the latest receive stored in the caller's buffer

fifoVars == <<open, channel, refused, delivered>>

Closed == [e \in Endpoints |-> << >>]

Init == /\ open = {} /\ channel = Closed
        /\ refused = [e \in Endpoints |-> 0]
        /\ delivered \in Contents

Reset == /\ open' = {} /\ channel' = Closed
         /\ refused' = [e \in Endpoints |-> 0]
         /\ UNCHANGED delivered

Open(e) == /\ e \notin open
           /\ open' = open \cup {e}
           /\ channel' = [channel EXCEPT ![e] = << >>]
           /\ refused' = [refused EXCEPT ![e] = 0]
           /\ UNCHANGED delivered

Send(e, m) == /\ e \in open /\ Len(channel[e]) < Depth
              /\ channel' = [channel EXCEPT ![e] = Append(@, m)]
              /\ UNCHANGED <<open, refused, delivered>>

Refuse(e) == /\ e \in open /\ Len(channel[e]) = Depth
             /\ refused' = [refused EXCEPT ![e] = (@ + 1) % CountMod]
             /\ UNCHANGED <<open, channel, delivered>>

Receive(e) == /\ e \in open /\ channel[e] # << >>
              /\ delivered' = Head(channel[e])
              /\ channel' = [channel EXCEPT ![e] = Tail(@)]
              /\ UNCHANGED <<open, refused>>

(* The calls that do what the caller asks for, and the one that does not   *)
(* and is counted.                                                         *)
Succeeds == \/ Reset
            \/ \E e \in Endpoints : \/ Open(e) \/ Receive(e)
                                    \/ \E m \in Contents : Send(e, m)
Fails == \E e \in Endpoints : Refuse(e)

Next == Succeeds \/ Fails

Spec == Init /\ [][Next]_fifoVars
==============================================================================
