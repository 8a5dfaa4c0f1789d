------------------------------ MODULE PacketLog ------------------------------
(***************************************************************************)
(* What aesdsocket promises about its output: a log to which every client   *)
(* adds its packet in one piece and the timer adds timestamps, and a client *)
(* that completed its packet is answered with what the log returns, its own *)
(* packet included, as it was at one moment.  A device may have dropped the *)
(* packet by then, for Capacity newer commands.  After a file is deleted no *)
(* packet is added and no one is answered.                                  *)
(***************************************************************************)
EXTENDS OutputStore

CONSTANTS Clients, Main, NULL

VARIABLES device,   \* the output is a device, not a file
          log,      \* pieces <<owner, kind>>
          deleted,  \* the server has removed the file
          answer    \* [Clients -> what the client was answered with, or NULL]

Init ==
  /\ device \in BOOLEAN /\ log = << >> /\ deleted = FALSE
  /\ answer = [c \in Clients |-> NULL]

(* The whole packet of c, or what a client that gives up has sent of it:   *)
(* the last pieces of the log, where c had none before.                    *)
Packet(c) ==
  /\ ~deleted /\ \A i \in 1 .. Len(log) : log[i][1] # c
  /\ \E n \in 1 .. Len(log') :
       LET packet == SubSeq(log', n, Len(log'))
       IN  /\ \A i \in 1 .. Len(packet) : packet[i][1] = c
           /\ log' = Keep(device, log \o packet)
  /\ UNCHANGED <<device, deleted, answer>>

(* A timestamp, which a full disk may cut short.                           *)
Timestamp ==
  /\ ~device
  /\ \E kind \in {"stamp", "cut"} : log' = Append(log, <<Main, kind>>)
  /\ UNCHANGED <<device, deleted, answer>>

(* The packet is there, or was cut short by a full disk, or had to go.     *)
Complete(c) ==
  \/ {<<c, "nl">>, <<c, "cut">>} \cap Range(log) # {}
  \/ device /\ Cardinality(Newlines(log)) = Capacity

Answer(c) ==
  /\ ~deleted /\ Complete(c) /\ answer[c] = NULL
  /\ answer' = [answer EXCEPT ![c] = Readable(device, log)]
  /\ UNCHANGED <<device, log, deleted>>

Delete ==
  /\ ~device /\ ~deleted
  /\ deleted' = TRUE /\ log' = << >>
  /\ UNCHANGED <<device, answer>>

Next == Timestamp \/ Delete \/ \E c \in Clients : Packet(c) \/ Answer(c)

Spec == Init /\ [][Next]_<<device, log, deleted, answer>>
=============================================================================
