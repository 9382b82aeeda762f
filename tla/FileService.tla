---------------------------- MODULE FileService -----------------------------
(***************************************************************************)
(* The process FileService() and its clients: whoever sends it a request   *)
(* gets one reply.  It serves one request at a time, from MsgRcv() to      *)
(* MsgSnd(), and nobody else touches its data, so a request and its reply  *)
(* are one step.  (Module Shell composes it with the kernel's messages.)   *)
(***************************************************************************)
EXTENDS FileTable

CONSTANTS
  Clients,   \* the PIDs that send requests
  Paths,     \* the paths they open
  Checked    \* the paths they check

ASSUME ClientAssumption ==
  /\ UNUSED \notin Clients /\ Paths \subseteq Checked
  /\ \A path \in Checked : IsSequence(path)

VARIABLES
  fd_array,
  reply      \* the last reply: to is its recipient, path what it asked for,
             \* code is code[0], fd is code[1], which OPEN_OBJ sets and READ_OBJ
             \* and CLOSE_OBJ leave as it was, data the object or the piece

vars == <<fd_array, reply>>

Reply(c, path, code, fd, data) ==
  reply' = [to |-> c, path |-> path, code |-> code, fd |-> fd, data |-> data]

Chk(c, path) ==
  /\ LET r == ChkObj(path) IN Reply(c, path, r.code, NULL, r.data)
  /\ UNCHANGED fd_array

Open(c, path) ==
  LET r == OpenObj(fd_array, path, c)
  IN  fd_array' = r.fds /\ Reply(c, path, r.code, r.fd, NULL)

(* The number may be any.  A client does not read the descriptor that its  *)
(* own open left without an item: the service would follow a null pointer. *)
Read(c, fd) ==
  /\ CanAccessFD(fd_array, fd, c) => fd_array[fd].item # NULL
  /\ LET r == ReadObj(fd_array, fd, c)
     IN  fd_array' = r.fds /\ Reply(c, NULL, r.code, fd, r.data)

Close(c, fd) ==
  LET r == CloseObj(fd_array, fd, c)
  IN  fd_array' = r.fds /\ Reply(c, NULL, r.code, fd, NULL)

(* The default of the switch, WRITE_OBJ and OPEN_NEW_OBJ among it.         *)
Unserved(c) == Reply(c, NULL, UNKNOWN, NULL, NULL) /\ UNCHANGED fd_array

Init == fd_array = InitFDs /\ reply = NULL

(* What a client may name as a descriptor: any that is one, and others.     *)
Number == -1 .. MAX_FD

Next ==
  \E c \in Clients :
    \/ \E path \in Checked : Chk(c, path)
    \/ \E path \in Paths : Open(c, path)
    \/ \E fd \in Number : Read(c, fd) \/ Close(c, fd)
    \/ Unserved(c)

Spec == Init /\ [][Next]_vars

-----------------------------------------------------------------------------
(***************************************************************************)
(* TypeOK: a descriptor that is in use belongs to a client, its item is an *)
(* entry, and its offset lies within what the item holds.                  *)
(***************************************************************************)
TypeOK ==
  /\ fd_array \in [FD -> [owner : Clients \cup {UNUSED}, offset : Nat,
                          item : Item \cup {NULL}]]
  /\ \A fd \in FD : LET f == fd_array[fd]
                    IN  f.item # NULL => f.offset <= Extent(f.item)

(***************************************************************************)
(* ServesStreams: the service keeps what Streams promises.  A path leads   *)
(* to what it stands for (Resolve), wherever it has slashes and whatever   *)
(* other entries its names begin, and nowhere by way of a file.  The       *)
(* offset of a directory counts entries, blank ones included, that of a    *)
(* file bytes; descriptors are reused, and closed and read by clients that *)
(* may name any number: still each client reads all of what it opened.     *)
(***************************************************************************)
Found   == [path \in Checked |-> Resolve(path)]
Left    == [item \in Item |-> [offset \in 0 .. Extent(item) |-> Rest(item, offset)]]
Content == [item \in Item |-> Left[item][0]]

RestOf(f) ==
  IF f.owner = UNUSED \/ f.item = NULL THEN <<>> ELSE Left[f.item][f.offset]

Service == INSTANCE Streams WITH
  Handle  <- FD,
  Number  <- Number,
  Client  <- Clients,
  Lookup  <- Found,
  Content <- Content,
  Nothing <- NULL,
  Nobody  <- UNUSED,
  owner   <- [fd \in FD |-> fd_array[fd].owner],
  rest    <- [fd \in FD |-> RestOf(fd_array[fd])],
  answer  <- reply

ServesStreams == Service!Spec
=============================================================================
