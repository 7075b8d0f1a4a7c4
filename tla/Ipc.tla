--------------------------------- MODULE Ipc ---------------------------------
(***************************************************************************)
(* The fixed-capacity message queues of kernel/ipc/ipc.c.  An endpoint is  *)
(* a ring of IPC_QUEUE_DEPTH slots addressed by two free-running 32-bit    *)
(* sequence numbers.  Calls come from cooperative tasks and from the       *)
(* bootstrap context only, never from an interrupt, so each is one action. *)
(***************************************************************************)
EXTENDS Naturals, Sequences

CONSTANTS IPC_MAX_ENDPOINTS, IPC_QUEUE_DEPTH, IPC_PAYLOAD_MAX,
          SeqMod,      \* 2^32: the modulus of sequence numbers and counters
          Byte,        \* byte values, 0 included
          Senders,     \* values of the sender field (the type field is alike)
          NULL         \* the null message pointer

ASSUME IpcAssumption ==
  /\ IPC_MAX_ENDPOINTS \in Nat /\ IPC_PAYLOAD_MAX \in Nat
  /\ IPC_QUEUE_DEPTH \in Nat \ {0}
  /\ SeqMod \in Nat /\ SeqMod > IPC_QUEUE_DEPTH
  /\ SeqMod % IPC_QUEUE_DEPTH = 0
  /\ 0 \in Byte /\ Senders # {}

Endpoints == 0 .. IPC_MAX_ENDPOINTS - 1
IPC_INVALID_ENDPOINT == IPC_MAX_ENDPOINTS
Slots == 0 .. IPC_QUEUE_DEPTH - 1
Indices == 0 .. IPC_PAYLOAD_MAX - 1
Payloads == [Indices -> Byte]

(* A caller may pass a length beyond the payload; a stored one never is. *)
MessagesUpTo(n) == [sender : Senders, length : 0 .. n, payload : Payloads]
Message == MessagesUpTo(IPC_PAYLOAD_MAX)
CallerMessage == MessagesUpTo(IPC_PAYLOAD_MAX + 1)

VARIABLES endpoints,   \* the endpoint table
          out,         \* the message buffer of the latest receiver
          ok           \* the Boolean result of the latest call

ipcVars == <<endpoints, out, ok>>

message_clear(s) == [sender |-> s, length |-> 0, payload |-> [i \in Indices |-> 0]]
Cleared == message_clear(CHOOSE s \in Senders : TRUE)

Fresh == [allocated |-> FALSE, read_sequence |-> 0, write_sequence |-> 0,
          rejected_messages |-> 0, queue |-> [i \in Slots |-> Cleared]]

IpcInit == /\ endpoints = [e \in Endpoints |-> Fresh]
        /\ out = Cleared
        /\ ok = TRUE

endpoint_is_valid(e) == e \in Endpoints /\ endpoints[e].allocated

(* (uint32_t)(write_sequence - read_sequence) *)
Pending(s) == (s.write_sequence + SeqMod - s.read_sequence) % SeqMod

(* Mutant of IsFull: off by one. *)
IsFull_early(s) == Pending(s) + 1 >= IPC_QUEUE_DEPTH

IsFull(s) == Pending(s) >= IPC_QUEUE_DEPTH

TooLong(m) == m.length > IPC_PAYLOAD_MAX

(* Mutant of Copy: the whole buffer is copied. *)
Copy_all(m) == m

(* The deep copy of ipc_send: bytes past the length are stored as zero. *)
Copy(m) == [m EXCEPT !.payload =
              [i \in Indices |-> IF i < m.length THEN m.payload[i] ELSE 0]]

fail == ok' = FALSE /\ UNCHANGED <<endpoints, out>>

-----------------------------------------------------------------------------
ipc_init == /\ endpoints' = [e \in Endpoints |-> Fresh]
            /\ ok' = TRUE
            /\ UNCHANGED out

(* The lowest free endpoint; its old ring contents stay where they are. *)
ipc_endpoint_create ==
  LET free == {e \in Endpoints : ~ endpoints[e].allocated}
  IN  \/ free = {} /\ fail
      \/ \E e \in free :
           /\ \A other \in free : e <= other
           /\ endpoints' = [endpoints EXCEPT
                ![e] = [@ EXCEPT !.allocated = TRUE, !.read_sequence = 0,
                                 !.write_sequence = 0, !.rejected_messages = 0]]
           /\ ok' = TRUE
           /\ UNCHANGED out

ipc_send(e, m) ==
  IF ~ endpoint_is_valid(e) \/ m = NULL THEN fail
  ELSE IF TooLong(m) THEN fail
  ELSE IF IsFull(endpoints[e])
  THEN /\ endpoints' = [endpoints EXCEPT
                          ![e].rejected_messages = (@ + 1) % SeqMod]
       /\ ok' = FALSE
       /\ UNCHANGED out
  ELSE /\ endpoints' = [endpoints EXCEPT
            ![e].queue[endpoints[e].write_sequence % IPC_QUEUE_DEPTH] = Copy(m),
            ![e].write_sequence = (@ + 1) % SeqMod]
       /\ ok' = TRUE
       /\ UNCHANGED out

ipc_receive(e, outIsNull) ==
  IF ~ endpoint_is_valid(e) \/ outIsNull THEN fail
  ELSE IF endpoints[e].read_sequence = endpoints[e].write_sequence THEN fail
  ELSE /\ out' = endpoints[e].queue[endpoints[e].read_sequence % IPC_QUEUE_DEPTH]
       /\ endpoints' = [endpoints EXCEPT ![e].read_sequence = (@ + 1) % SeqMod]
       /\ ok' = TRUE

ipc_pending(e) == IF endpoint_is_valid(e) THEN Pending(endpoints[e]) ELSE 0

ipc_rejected_count(e) ==
  IF endpoint_is_valid(e) THEN endpoints[e].rejected_messages ELSE 0

IpcNext ==
  \/ ipc_init
  \/ ipc_endpoint_create
  \/ \E e \in Endpoints \cup {IPC_INVALID_ENDPOINT} :
       \/ \E m \in CallerMessage \cup {NULL} : ipc_send(e, m)
       \/ \E outIsNull \in BOOLEAN : ipc_receive(e, outIsNull)

IpcSpec == IpcInit /\ [][IpcNext]_ipcVars

-----------------------------------------------------------------------------
(* Every variable keeps its type; counters stay within 32 bits. *)
IpcTypeOK ==
  /\ endpoints \in [Endpoints -> [allocated : BOOLEAN,
                                  read_sequence : 0 .. SeqMod - 1,
                                  write_sequence : 0 .. SeqMod - 1,
                                  rejected_messages : 0 .. SeqMod - 1,
                                  queue : [Slots -> Message]]]
  /\ out \in Message
  /\ ok \in BOOLEAN

(* However often the sequence numbers have wrapped around, ipc_pending     *)
(* never reports more messages than the ring has slots.                    *)
PendingBounded == \A e \in Endpoints : Pending(endpoints[e]) <= IPC_QUEUE_DEPTH

(* A received message carries no byte beyond its length: neither what the  *)
(* sender had in the rest of its buffer, nor what an earlier message left  *)
(* in the reused ring slot.                                                *)
NoStaleBytes ==
  \A i \in Indices : i >= out.length => out.payload[i] = 0

-----------------------------------------------------------------------------
(* The refinement mapping: the ring read from read_sequence onwards. *)
Content(m) == [sender |-> m.sender,
               bytes |-> [i \in 1 .. m.length |-> m.payload[i - 1]]]

InTransit(s) ==
  [i \in 1 .. Pending(s) |->
     Content(s.queue[(s.read_sequence + i - 1) % IPC_QUEUE_DEPTH])]

Fifo == INSTANCE MessageFifo WITH
  Depth <- IPC_QUEUE_DEPTH, CountMod <- SeqMod,
  Contents <- {Content(m) : m \in Message},
  open <- {e \in Endpoints : endpoints[e].allocated},
  channel <- [e \in Endpoints |-> InTransit(endpoints[e])],
  refused <- [e \in Endpoints |-> endpoints[e].rejected_messages],
  delivered <- Content(out)

(* The result tells the caller whether the call did anything. *)
Reported == IF ok' THEN Fifo!Succeeds ELSE Fifo!Fails \/ UNCHANGED Fifo!fifoVars

(* The rings behave as bounded FIFOs: nothing is lost, duplicated,         *)
(* reordered or moved to another endpoint, and only sends to a full        *)
(* endpoint are counted as rejected.  A call returns true exactly when it  *)
(* had its effect on the FIFO.                                             *)
ImplementsFifo == Fifo!Spec /\ [][Reported]_ipcVars
==============================================================================
