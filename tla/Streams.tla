------------------------------ MODULE Streams -------------------------------
(***************************************************************************)
(* What the clients of the file service can count on.  A handle belongs to *)
(* the client that opened it until that client closes it.  Reading it      *)
(* gives the pieces of the object in order, each once, and says that there *)
(* are no more when there are no more, whatever the other clients do.      *)
(* Opening fails when every handle is taken; a name that is not found      *)
(* takes one, with nothing to read.                                        *)
(***************************************************************************)
EXTENDS Integers, Sequences

CONSTANTS
  Handle,    \* the handles
  Number,    \* what clients may name as a handle, the handles among it
  Client,    \* the clients
  Lookup,    \* of each name: the object it stands for, or Nothing
  Content,   \* of each object: the sequence of its pieces
  Nothing,
  Nobody     \* the owner of a handle that is free

VARIABLES
  owner,   \* of each handle: its owner
  rest,    \* of each handle: what is still to be read
  answer   \* the last answer

Code == [good |-> 1, unfound |-> -101, unknown |-> -102, full |-> -103,
         end |-> -104, refused |-> -105]

Answer(c, name, code, h, piece) ==
  answer' = [to |-> c, path |-> name, code |-> Code[code], fd |-> h, data |-> piece]

Free == {h \in Handle : owner[h] = Nobody}

Take(h, c, pieces) ==
  /\ owner' = [owner EXCEPT ![h] = c]
  /\ rest' = [rest EXCEPT ![h] = pieces]

Check(c, name) ==
  /\ \/ Lookup[name] # Nothing /\ Answer(c, name, "good", Nothing, Lookup[name])
     \/ Lookup[name] = Nothing /\ Answer(c, name, "unfound", Nothing, Nothing)
  /\ UNCHANGED <<owner, rest>>

Open(c, name) ==
  \/ /\ Free = {}
     /\ Answer(c, name, "full", Nothing, Nothing)
     /\ UNCHANGED <<owner, rest>>
  \/ /\ Lookup[name] # Nothing
     /\ \E h \in Free : Take(h, c, Content[Lookup[name]]) /\ Answer(c, name, "good", h, Nothing)
  \/ /\ Lookup[name] = Nothing
     /\ \E h \in Free : Take(h, c, <<>>)
     /\ Answer(c, name, "unfound", Nothing, Nothing)

Owns(c, h) == h \in Handle /\ owner[h] = c

Read(c, h) ==
  /\ Owns(c, h)
  /\ \/ /\ rest[h] # <<>>
        /\ Answer(c, Nothing, "good", h, Head(rest[h]))
        /\ rest' = [rest EXCEPT ![h] = Tail(@)]
     \/ /\ rest[h] = <<>>
        /\ Answer(c, Nothing, "end", h, Nothing)
        /\ UNCHANGED rest
  /\ UNCHANGED owner

Close(c, h) ==
  /\ Owns(c, h)
  /\ owner' = [owner EXCEPT ![h] = Nobody]
  /\ rest' = [rest EXCEPT ![h] = <<>>]
  /\ Answer(c, Nothing, "good", h, Nothing)

(* Another client's handle or none: only what is not its own is refused.   *)
Refuse(c, h) ==
  /\ ~Owns(c, h)
  /\ Answer(c, Nothing, "refused", h, Nothing)
  /\ UNCHANGED <<owner, rest>>

(* A request that does not exist.                                          *)
Reject(c) ==
  /\ Answer(c, Nothing, "unknown", Nothing, Nothing)
  /\ UNCHANGED <<owner, rest>>

Init ==
  /\ owner = [h \in Handle |-> Nobody]
  /\ rest = [h \in Handle |-> <<>>]
  /\ answer = Nothing

Next ==
  \E c \in Client :
    \/ \E name \in DOMAIN Lookup : Check(c, name) \/ Open(c, name)
    \/ \E h \in Handle : Read(c, h) \/ Close(c, h)
    \/ \E h \in Number : Refuse(c, h)
    \/ Reject(c)

Spec == Init /\ [][Next]_<<owner, rest, answer>>
=============================================================================
