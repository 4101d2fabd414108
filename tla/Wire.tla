-------------------------------- MODULE Wire --------------------------------
(***************************************************************************)
(* The two directions of the connection between the Go backend and the     *)
(* QML plugin.  The stream is reliable and ordered (a socket or a pair of   *)
(* pipes); framing is what makes it a stream of whole messages.            *)
(*                                                                         *)
(* toBackend holds what the plugin wrote and Process has not handled: the  *)
(* socket, the reader goroutine and Connection.queue in one FIFO.          *)
(* toClient holds what the backend wrote and the plugin has not handled:   *)
(* the socket, m_msgBuf and m_pendingMessages in one FIFO.                 *)
(*                                                                         *)
(* An object is known on the wire by its identifier only.  Of a message's  *)
(* payload the objects it mentions are kept, and the types of those whose  *)
(* description was left out ("omitted").                                   *)
(***************************************************************************)
EXTENDS Sequences, SequencesExt

CONSTANTS Object,    \* every object that may ever exist, by identifier
          Root,      \* the root object
          NoObject,  \* no object
          Instance,  \* the objects the plugin instantiates (OBJECT_CREATE)
          Type,      \* names of object types
          TypeOf,    \* the type of each object
          Signals,   \* Signals[o]: the parameters its signals may be sent with
          Methods,   \* Methods[o]: the parameters its methods may be called with
          Results    \* Results[o]: the values its methods may return

\* A list of parameters or of values: it mentions one object or none.
Parameters == {{}} \cup {{o} : o \in Object}

ASSUME WireAssumption ==
  /\ Root \in Object
  /\ NoObject \notin Object
  /\ Instance \subseteq Object \ {Root}
  /\ TypeOf \in [Object -> Type]
  /\ {Signals, Methods, Results} \subseteq [Object -> SUBSET Parameters]

VARIABLES toBackend, toClient

wireVars == <<toBackend, toClient>>

Requests == {"OBJECT_REF", "OBJECT_DEREF", "OBJECT_QUERY", "OBJECT_CREATE", "INVOKE"}
Updates  == {"ROOT", "OBJECT_RESET", "EMIT", "INVOKE_RETURN"}

\* What the plugin writes: a command, its object, and the objects it passes.
Request(cmd, o, args) == [cmd |-> cmd, id |-> o, kids |-> args]

\* What the backend writes: also the types it described by name only.
Update(cmd, o, objs, omitted) ==
  [cmd |-> cmd, id |-> o, kids |-> objs, omit |-> omitted]

RequestSet == [cmd : Requests, id : Object, kids : SUBSET Object]
UpdateSet  == [cmd : Updates, id : Object, kids : SUBSET Object, omit : SUBSET Type]

WireTypeOK ==
  /\ toBackend \in Seq(RequestSet)
  /\ toClient \in Seq(UpdateSet)
=============================================================================
