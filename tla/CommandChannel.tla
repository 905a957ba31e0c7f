---------------------------- MODULE CommandChannel ----------------------------
(***************************************************************************)
(* What the serial side promises its clients, without its queues, threads  *)
(* and pointers: every session carries commands to one port, each command  *)
(* reaches the device at most once and keeps its data until then, and a    *)
(* port is closed only behind a stop command.                              *)
(*                                                                         *)
(* SerialRefinement shows that SerialControl implements this.  There are   *)
(* no constants but the names of things: nothing here bounds a queue.      *)
(***************************************************************************)
EXTENDS Naturals, Sequences

CONSTANTS
    Port,
    NoPort,      \* the port of a session that has none yet, not in Port
    Session,
    Byte,        \* command bytes
    Stop         \* the one of them that stops a device

VARIABLES
    port,        \* of each session
    state,       \* "new", "open", "closed"
    commands,    \* all commands accepted, as session and byte
    waiting,     \* of each session: commands whose write has not ended
    ended,       \* of each session: the others whose data is still held
    device,      \* the last byte that each device received
    up           \* the program runs

vars == <<port, state, commands, waiting, ended, device, up>>

Init ==
    /\ port = [s \in Session |-> NoPort]
    /\ state = [s \in Session |-> "new"]
    /\ commands = <<>>
    /\ waiting = [s \in Session |-> {}]
    /\ ended = [s \in Session |-> {}]
    /\ device = [p \in Port |-> Stop]
    /\ up = TRUE

\* A session is given its port, once.
Assign(s, p) ==
    /\ up /\ state[s] = "new" /\ port[s] = NoPort
    /\ port' = [port EXCEPT ![s] = p]
    /\ UNCHANGED <<state, commands, waiting, ended, device, up>>

\* Its port opens or does not; there is no second try.
Settle(s) ==
    /\ up /\ state[s] = "new" /\ port[s] # NoPort
    /\ \E outcome \in {"open", "closed"} : state' = [state EXCEPT ![s] = outcome]
    /\ UNCHANGED <<port, commands, waiting, ended, device, up>>

\* A command is accepted while the port is open.
Accept(s, b) ==
    /\ up /\ state[s] = "open"
    /\ commands' = Append(commands, [s |-> s, cmd |-> b])
    /\ waiting' = [waiting EXCEPT ![s] = @ \cup {Len(commands) + 1}]
    /\ UNCHANGED <<port, state, ended, device, up>>

\* Its write ends: the device received it, or it is lost.
Finish(s, n) ==
    /\ up /\ n \in waiting[s]
    /\ waiting' = [waiting EXCEPT ![s] = @ \ {n}]
    /\ ended' = [ended EXCEPT ![s] = @ \cup {n}]
    /\ \/ state[s] = "open" /\ device' = [device EXCEPT ![port[s]] = commands[n].cmd]
       \/ UNCHANGED device
    /\ UNCHANGED <<port, state, commands, up>>

\* Its data is released.
Release(s, n) ==
    /\ up /\ n \in ended[s]
    /\ ended' = [ended EXCEPT ![s] = @ \ {n}]
    /\ UNCHANGED <<port, state, commands, waiting, device, up>>

\* The port is closed together with the release of a stop command.
Close(s, n) ==
    /\ up /\ state[s] = "open" /\ n \in ended[s] /\ commands[n].cmd = Stop
    /\ ended' = [ended EXCEPT ![s] = @ \ {n}]
    /\ state' = [state EXCEPT ![s] = "closed"]
    /\ UNCHANGED <<port, commands, waiting, device, up>>

\* The process ends or crashes.
Down ==
    /\ up /\ up' = FALSE
    /\ UNCHANGED <<port, state, commands, waiting, ended, device>>

Next ==
    \/ \E s \in Session :
        \/ \E p \in Port : Assign(s, p)
        \/ Settle(s)
        \/ \E b \in Byte : Accept(s, b)
        \/ \E n \in 1..Len(commands) : Finish(s, n) \/ Release(s, n) \/ Close(s, n)
    \/ Down

Spec == Init /\ [][Next]_vars
=============================================================================
