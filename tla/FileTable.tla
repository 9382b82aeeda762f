----------------------------- MODULE FileTable ------------------------------
(***************************************************************************)
(* The functions of FileService.c on the directories and on the table of   *)
(* file descriptors.  The directories never change, so they are constants; *)
(* the table is an argument, fds, and a function that changes it returns   *)
(* the new one.                                                            *)
(*                                                                         *)
(* A dir_t * is a pair <<directory, index>>, the index counted from 1.  A  *)
(* path is the sequence of its names and slashes, and a name is known by   *)
(* the entries it is a prefix of.  What a file holds is its size: a read   *)
(* returns the slice it copied.                                            *)
(***************************************************************************)
EXTENDS Integers, Sequences, FiniteSets

CONSTANTS
  MAX_FD,     \* number of file descriptors                      (20)
  CHUNK,      \* the most bytes of a file that a READ_OBJ returns  (100)
  dirs,       \* the directories: the entries in front of the end marker
  root_dir,   \* the directory that every path starts in
  Prefixes,   \* of a name in a directory: the names that begin it
  SLASH,      \* '/'
  NULL        \* a null pointer, and the name of a blank entry

GOOD      == 1
UNUSED    == -100   \* the owner of a descriptor that is not in use
UNFOUND   == -101
UNKNOWN   == -102
NO_FD     == -103   \* "all file descriptors in use"
FM_EOF    == -104
ILL_PARAM == -105

FD   == 0 .. MAX_FD - 1
Item == UNION {{d} \X DOMAIN dirs[d] : d \in DOMAIN dirs}

Entry(item) == dirs[item[1]][item[2]]

A_ISDIR(item) == Entry(item).mode = "DIR"

IsSequence(s) == s \in Seq({s[i] : i \in DOMAIN s})

(***************************************************************************)
(* The data of a directory's entry, and of no other, is a directory; a     *)
(* directory is never empty.                                               *)
(***************************************************************************)
ASSUME FileAssumption ==
  /\ MAX_FD \in Nat /\ CHUNK \in Nat \ {0}
  /\ root_dir \in DOMAIN dirs
  /\ NULL \notin Item
  /\ \A d \in DOMAIN dirs : IsSequence(dirs[d]) /\ dirs[d] # <<>>
  /\ \A item \in Item :
        /\ A_ISDIR(item) <=> Entry(item).data \in DOMAIN dirs
        /\ ~A_ISDIR(item) => Entry(item).size \in Nat

Least(S) == CHOOSE i \in S : \A j \in S : i <= j

(* The numbers of a finite set in their order.  (No recursion, as that of   *)
(* SelectSeq(): the proofs rest on it.)                                     *)
Sorted(S) ==
  [k \in 1 .. Cardinality(S) |->
     Least({i \in S : Cardinality({j \in S : j < i}) = k - 1})]

-----------------------------------------------------------------------------
(***************************************************************************)
(* FindName(): leading slashes change nothing, and a path of nothing else  *)
(* is the root.  FindNameSub() takes the first entry, in front of a blank  *)
(* one, that the next name begins; what follows is looked up in the data   *)
(* of that entry, and there is nothing to be found in what is no directory *)
(* (the name of its first "entry" is beyond 0xdfffff or NULL).             *)
(***************************************************************************)
(* Mutant: whole names are compared.                                       *)
SameName(name, d) ==
  {i \in DOMAIN dirs[d] : \A j \in 1 .. i : dirs[d][j].name # NULL
                          /\ name = dirs[d][i].name}

(* The entries of d that a loop of MyStrcmp(name, ..., len) can stop at.   *)
Begun(name, d) ==
  {i \in DOMAIN dirs[d] : /\ \A j \in 1 .. i : dirs[d][j].name # NULL
                          /\ name \in Prefixes[dirs[d][i].name]}

NamesFrom(path, k) == {j \in k .. Len(path) : path[j] # SLASH}

FindNameSub(path, k, this_dir) ==
  LET find[j \in 1 .. Len(path)] ==
        [d \in DOMAIN dirs |->
           LET begun == Begun(path[j], d)
               later == NamesFrom(path, j + 1)
               first == Least(begun)
           IN  IF begun = {} THEN NULL
               ELSE IF later = {} THEN <<d, first>>
               ELSE IF dirs[d][first].data \notin DOMAIN dirs THEN NULL
               ELSE find[Least(later)][dirs[d][first].data]]
  IN  find[k][this_dir]

FindName(path) ==
  IF path = <<>> THEN NULL
  ELSE IF NamesFrom(path, 1) = {} THEN <<root_dir, 1>>
  ELSE FindNameSub(path, Least(NamesFrom(path, 1)), root_dir)

(***************************************************************************)
(* What a path stands for, without a search: its names lead along a route  *)
(* of entries, each the first of its directory that the name begins, each  *)
(* but the last the directory of the next.                                 *)
(***************************************************************************)
FirstBegun(item, name) ==
  LET names == [j \in 1 .. item[2] |-> dirs[item[1]][j].name]
  IN  /\ \A j \in DOMAIN names : names[j] # NULL
      /\ \A j \in DOMAIN names : name \in Prefixes[names[j]] <=> j = item[2]

Routes(names, this_dir) ==
  {t \in [DOMAIN names -> Item] :
     /\ t[1][1] = this_dir
     /\ \A k \in DOMAIN names : FirstBegun(t[k], names[k])
     /\ \A k \in DOMAIN names \ {1} :
          A_ISDIR(t[k - 1]) /\ t[k][1] = Entry(t[k - 1]).data}

NamesAt(path, places) ==
  LET in_order == Sorted(places) IN [k \in DOMAIN in_order |-> path[in_order[k]]]

Target(names, this_dir) ==
  LET routes == Routes(names, this_dir)
  IN  IF routes = {} THEN NULL ELSE (CHOOSE t \in routes : TRUE)[Len(names)]

Resolve(path) ==
  LET places == NamesFrom(path, 1)
  IN  IF path = <<>> THEN NULL
      ELSE IF places = {} THEN <<root_dir, 1>>
      ELSE Target(NamesAt(path, places), root_dir)

-----------------------------------------------------------------------------
(***************************************************************************)
(* The four requests.  Each returns the code and the table it leaves.      *)
(***************************************************************************)
ChkObj(path) ==
  LET item == FindName(path)
  IN  IF item = NULL THEN [code |-> UNFOUND, data |-> NULL]
      ELSE [code |-> GOOD, data |-> item]

Unused(fds) == {fd \in FD : fds[fd].owner = UNUSED}

(* Mutant: the offset of the last use is kept.                             *)
KeepOffset(fds, owner) ==
  [fds EXCEPT ![Least(Unused(fds))].owner = owner, ![Least(Unused(fds))].item = NULL]

(* AllocFD() where there is an unused descriptor.                          *)
AllocFD(fds, owner) ==
  [fds EXCEPT ![Least(Unused(fds))] =
     [owner |-> owner, offset |-> 0, item |-> NULL]]

(* A path that is not found has its descriptor allocated all the same.     *)
OpenObj(fds, path, owner) ==
  LET fd    == Least(Unused(fds))
      item  == FindName(path)
      taken == AllocFD(fds, owner)
  IN  IF Unused(fds) = {} THEN [code |-> NO_FD, fd |-> NULL, fds |-> fds]
      ELSE IF item = NULL THEN [code |-> UNFOUND, fd |-> NULL, fds |-> taken]
      ELSE [code |-> GOOD, fd |-> fd, fds |-> [taken EXCEPT ![fd].item = item]]

CanAccessFD(fds, fd, owner) == fd \in FD /\ fds[fd].owner = owner

CloseObj(fds, fd, owner) ==
  IF CanAccessFD(fds, fd, owner)
  THEN [code |-> GOOD, fds |-> [fds EXCEPT ![fd].owner = UNUSED]]
  ELSE [code |-> ILL_PARAM, fds |-> fds]

(* A directory: the next entry that is not blank.                          *)
ReadDir(fds, fd) ==
  LET d    == Entry(fds[fd].item).data
      next == {i \in DOMAIN dirs[d] :
                 i > fds[fd].offset /\ dirs[d][i].name # NULL}
  IN  IF next = {}
      THEN [code |-> FM_EOF, data |-> NULL,
            fds  |-> [fds EXCEPT ![fd].offset = Len(dirs[d])]]
      ELSE [code |-> GOOD, data |-> <<d, Least(next)>>,
            fds  |-> [fds EXCEPT ![fd].offset = Least(next)]]

(* Mutant: a whole message, however little is left.                        *)
AlwaysChunk(remaining) == CHUNK

Transferred(remaining) == IF remaining < CHUNK THEN remaining ELSE CHUNK

(* A file: as much of the rest as one message carries.                     *)
ReadFile(fds, fd) ==
  LET offset    == fds[fd].offset
      remaining == Entry(fds[fd].item).size - offset
      count     == Transferred(remaining)
  IN  IF remaining = 0
      THEN [code |-> FM_EOF, data |-> NULL, fds |-> fds]
      ELSE [code |-> GOOD, data |-> <<fds[fd].item, offset, offset + count>>,
            fds  |-> [fds EXCEPT ![fd].offset = offset + count]]

(* BUF_SMALL is never returned: a message is large enough for an attr_t.   *)
ReadObj(fds, fd, owner) ==
  IF ~CanAccessFD(fds, fd, owner)
  THEN [code |-> ILL_PARAM, data |-> NULL, fds |-> fds]
  ELSE IF A_ISDIR(fds[fd].item) THEN ReadDir(fds, fd)
  ELSE ReadFile(fds, fd)

(***************************************************************************)
(* What there is to read in an item from an offset on: the entries of a    *)
(* directory that are not blank, or a file in slices.                      *)
(***************************************************************************)
NamedFrom(d, from) == {i \in DOMAIN dirs[d] : i > from /\ dirs[d][i].name # NULL}

Named(d, from) ==
  LET in_order == Sorted(NamedFrom(d, from))
  IN  [k \in DOMAIN in_order |-> <<d, in_order[k]>>]

Slices(item, from) ==
  LET size == Entry(item).size IN
  [k \in 1 .. (size - from + CHUNK - 1) \div CHUNK |->
     LET start == from + (k - 1) * CHUNK
     IN  <<item, start, IF start + CHUNK < size THEN start + CHUNK ELSE size>>]

(* The offset at the end of an item.                                        *)
Extent(item) ==
  IF A_ISDIR(item) THEN Len(dirs[Entry(item).data]) ELSE Entry(item).size

Rest(item, offset) ==
  IF A_ISDIR(item) THEN Named(Entry(item).data, offset)
  ELSE Slices(item, offset)

(* FileService() before its loop; the other fields start as zeros.         *)
InitFDs == [fd \in FD |-> [owner |-> UNUSED, offset |-> 0, item |-> NULL]]
=============================================================================
