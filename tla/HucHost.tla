------------------------------ MODULE HucHost -------------------------------
(***************************************************************************)
(* The host clients (injectByteCode.c, reset.c, pinonsame.c) and their TCP *)
(* connections to the device.  Every client is the same program: connect,  *)
(* then for each message of its script send the header and send the        *)
(* payload (two send calls), then close.  injectByteCode and reset have a  *)
(* script of one message, pinonsame one of two (PIN_ON_SAME, RESET) with a *)
(* sleep in between, which here is the time other actors may take.         *)
(***************************************************************************)
EXTENDS HucMsg

CONSTANTS
    Clients,    \* runs of the host programs
    Script,     \* Script[c]: the messages client c sends on its connection
    Port,       \* Port[c]: the PORT compiled into client c's program
    ListenPort, \* the port make_socket() binds in huc_realize
    Backlog,    \* connections the kernel completes before accept (listen(fd, 1))
    MayDie      \* whether a client may be killed between two of its steps

ASSUME HostAssumption ==
    /\ Script \in [Clients -> Seq(Message)]
    /\ Port \in [Clients -> Nat]
    /\ ListenPort \in Nat
    /\ Backlog \in Nat \ {0}
    /\ MayDie \in BOOLEAN

VARIABLES
    cpc,     \* what each client does next
    cmsg,    \* index in its script of the message it is sending
    stream,  \* words sent by the client and not yet received by the device
    queue    \* established connections waiting for accept

hostVars == <<cpc, cmsg, stream, queue>>

ClientPc == {"connect", "header", "payload", "close", "closed", "refused"}

HostTypeOK ==
    /\ cpc \in [Clients -> ClientPc]
    /\ cmsg \in [Clients -> Nat]
    /\ \A c \in Clients : cpc[c] \in {"header", "payload"} => cmsg[c] \in 1 .. Len(Script[c])
    /\ \A c \in Clients : cpc[c] = "connect" => cmsg[c] = 1
    /\ stream \in [Clients -> Seq(Word)]
    /\ queue \in Seq(Clients)

HostInit ==
    /\ cpc = [c \in Clients |-> "connect"]
    /\ cmsg = [c \in Clients |-> 1]
    /\ stream = [c \in Clients |-> << >>]
    /\ queue = << >>

(* The device binds one port; a connect() to any other port, or while the  *)
(* device is not up, fails and the client exits.                           *)
Connect(c, up) ==
    /\ cpc[c] = "connect"
    /\ IF up /\ Port[c] = ListenPort
         THEN /\ Len(queue) < Backlog
              /\ queue' = Append(queue, c)
              /\ cpc' = [cpc EXCEPT ![c] = IF Script[c] = << >> THEN "close" ELSE "header"]
         ELSE /\ cpc' = [cpc EXCEPT ![c] = "refused"]
              /\ UNCHANGED queue
    /\ UNCHANGED <<cmsg, stream>>

SendHeader(c) ==
    /\ cpc[c] = "header"
    /\ stream' = [stream EXCEPT ![c] = Append(@, HeaderWord(Script[c][cmsg[c]]))]
    /\ cpc' = [cpc EXCEPT ![c] = "payload"]
    /\ UNCHANGED <<cmsg, queue>>

(* Faulty variant: one message too many.                                   *)
SendPayload_PastEnd(c) ==
    /\ cpc[c] = "payload"
    /\ stream' = [stream EXCEPT ![c] = @ \o PayloadWords(Script[c][cmsg[c]])]
    /\ cmsg' = [cmsg EXCEPT ![c] = @ + 1]
    /\ cpc' = [cpc EXCEPT ![c] = IF cmsg[c] <= Len(Script[c]) THEN "header" ELSE "close"]
    /\ UNCHANGED queue

SendPayload(c) ==
    /\ cpc[c] = "payload"
    /\ stream' = [stream EXCEPT ![c] = @ \o PayloadWords(Script[c][cmsg[c]])]
    /\ IF cmsg[c] < Len(Script[c])
         THEN /\ cmsg' = [cmsg EXCEPT ![c] = @ + 1]
              /\ cpc' = [cpc EXCEPT ![c] = "header"]
         ELSE /\ cpc' = [cpc EXCEPT ![c] = "close"]
              /\ UNCHANGED cmsg
    /\ UNCHANGED queue

Close(c) ==
    /\ cpc[c] = "close"
    /\ cpc' = [cpc EXCEPT ![c] = "closed"]
    /\ UNCHANGED <<cmsg, stream, queue>>

(* The process is killed: the kernel closes its socket.                    *)
Die(c) ==
    /\ MayDie
    /\ cpc[c] \in {"header", "payload"}
    /\ cpc' = [cpc EXCEPT ![c] = "closed"]
    /\ UNCHANGED <<cmsg, stream, queue>>

ClientStep(c, up) == Connect(c, up) \/ SendHeader(c) \/ SendPayload(c) \/ Close(c)

(* recv on client c's connection finds end of file.                        *)
Eof(c) == stream[c] = << >> /\ cpc[c] = "closed"

=============================================================================
