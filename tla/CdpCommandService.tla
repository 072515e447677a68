------------------------ MODULE CdpCommandService ------------------------
(***************************************************************************)
(* What the relay promises to the program that drives the browser: a       *)
(* command sent on a CDP socket is settled at most once, with a result or  *)
(* an error while the socket of its sender is open, and it is dropped only *)
(* when that socket is no longer open.  Nothing is said of the extension,  *)
(* of timers or of message ids: ExtensionRelay implements this module.     *)
(***************************************************************************)
CONSTANTS Cmd,      \* the commands that may ever be sent
          Client,   \* the CDP sockets that may ever be opened
          NoClient  \* the sender of a command that was not sent

VARIABLES status,   \* where each command is
          sender,   \* the socket a command came in on
          up        \* the life of each CDP socket

vars == <<status, sender, up>>

Settled == {"result", "error", "dropped"}
Status == {"unsent", "outstanding"} \cup Settled

Init ==
  /\ status = [c \in Cmd |-> "unsent"]
  /\ sender = [c \in Cmd |-> NoClient]
  /\ up = [cl \in Client |-> "fresh"]

(* The life of a socket: it opens once and goes away once.                 *)
SocketStep(cl) ==
  \/ up'[cl] = up[cl]
  \/ up[cl] = "fresh" /\ up'[cl] = "open"
  \/ up[cl] # "fresh" /\ up'[cl] = "gone"

Ask(c) ==
  /\ status[c] = "unsent" /\ status'[c] = "outstanding"
  /\ sender'[c] \in Client
  /\ up[sender'[c]] # "fresh"

Answer(c) ==
  /\ status[c] = "outstanding" /\ status'[c] \in {"result", "error"}
  /\ sender'[c] = sender[c]
  /\ up'[sender[c]] = "open"

Drop(c) ==
  /\ status[c] = "outstanding" /\ status'[c] = "dropped"
  /\ sender'[c] = sender[c]
  /\ up'[sender[c]] = "gone"

Keep(c) == status'[c] = status[c] /\ sender'[c] = sender[c]

(* One event may settle many commands and close many sockets at once.      *)
Next ==
  /\ status' \in [Cmd -> Status]
  /\ sender' \in [Cmd -> Client \cup {NoClient}]
  /\ up' \in [Client -> {"fresh", "open", "gone"}]
  /\ \A cl \in Client : SocketStep(cl)
  /\ \A c \in Cmd : Ask(c) \/ Answer(c) \/ Drop(c) \/ Keep(c)

Spec == Init /\ [][Next]_vars

(* Every command that was sent is settled in the end.                      *)
ServedInTheEnd(c) == status[c] = "outstanding" ~> status[c] \in Settled

Served == \A c \in Cmd : ServedInTheEnd(c)
==========================================================================
