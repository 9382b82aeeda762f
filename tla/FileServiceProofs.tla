------------------------- MODULE FileServiceProofs --------------------------
(***************************************************************************)
(* The process FileService() for all directories, paths, clients and       *)
(* numbers of descriptors: it implements Streams.                          *)
(***************************************************************************)
EXTENDS FileService, FileTableProofs

-----------------------------------------------------------------------------
(***************************************************************************)
(* The requests.                                                           *)
(***************************************************************************)
LEMMA LeftIs ==
  ASSUME NEW item \in Item, NEW offset \in 0 .. Extent(item)
  PROVE  Left[item][offset] = Rest(item, offset)
BY DEF Left

LEMMA FindNameType ==
  ASSUME NEW path \in Checked
  PROVE  FindName(path) \in Item \cup {NULL} /\ FindName(path) = Found[path]
<1>1. IsSequence(path)
  BY ClientAssumption
<1>2. QED
  BY <1>1, FindsWhatIsMeant, ResolveType DEF Found

(* A descriptor that is in use belongs to a client.                         *)
Holders == Clients \cup {UNUSED}

Described(f) == WithinExtent(f, Holders)

LEMMA TypeIs == TypeOK <=> DOMAIN fd_array = FD /\ fd_array = [fd \in FD |-> fd_array[fd]]
                           /\ \A fd \in FD : Described(fd_array[fd])
BY DEF TypeOK, Described, WithinExtent, Descriptor, Holders

LEMMA OpenIs ==
  ASSUME TypeOK, NEW path \in Checked, NEW c \in Clients
  PROVE  LET fd == Least(Unused(fd_array))
             r  == OpenObj(fd_array, path, c)
             f  == [owner |-> c, offset |-> 0, item |-> FindName(path)]
         IN  /\ Unused(fd_array) = {} =>
                  r.code = NO_FD /\ r.fd = NULL /\ r.fds = fd_array
             /\ Unused(fd_array) # {} =>
                  /\ fd \in FD /\ fd_array[fd].owner = UNUSED /\ Described(f)
                  /\ r.fds = [fd_array EXCEPT ![fd] = f]
                  /\ FindName(path) = NULL => r.code = UNFOUND /\ r.fd = NULL
                  /\ FindName(path) # NULL => r.code = GOOD /\ r.fd = fd
<1> DEFINE fd == Least(Unused(fd_array))
           r == OpenObj(fd_array, path, c)
           f == [owner |-> c, offset |-> 0, item |-> FindName(path)]
<1>1. Described(f)
  <2>1. FindName(path) \in Item \cup {NULL}
    BY FindNameType
  <2>2. FindName(path) # NULL => Extent(FindName(path)) \in Nat
    BY <2>1, ExtentIs
  <2>3. QED
    BY <2>1, <2>2 DEF Described, WithinExtent, Descriptor, Holders
<1>2. DOMAIN fd_array = FD
  BY TypeIs
<1>3. /\ Unused(fd_array) = {} => r.code = NO_FD /\ r.fd = NULL /\ r.fds = fd_array
      /\ Unused(fd_array) # {} =>
           /\ fd \in FD /\ fd_array[fd].owner = UNUSED
           /\ r.fds = [fd_array EXCEPT ![fd] = f]
           /\ FindName(path) = NULL => r.code = UNFOUND /\ r.fd = NULL
           /\ FindName(path) # NULL => r.code = GOOD /\ r.fd = fd
  BY <1>2, OpenGives
<1> HIDE DEF fd, r, f
<1>4. QED
  BY <1>1, <1>3 DEF fd, r, f

LEMMA ReadIs ==
  ASSUME TypeOK, NEW c \in Clients, NEW fd \in FD, fd_array[fd].owner = c,
         fd_array[fd].item # NULL
  PROVE  Reads(ReadObj(fd_array, fd, c), fd_array, fd)
<1>1. /\ WithinExtent(fd_array[fd], Holders) /\ DOMAIN fd_array = FD
      /\ fd_array = [h \in FD |-> fd_array[h]]
  BY TypeIs DEF Described
<1>2. QED
  BY <1>1, ReadObjIs

(* One descriptor changes, or none.                                         *)
LEMMA TypeStep ==
  ASSUME TypeOK, NEW fd \in FD, NEW f, Described(f), fd_array' = [fd_array EXCEPT ![fd] = f]
  PROVE  TypeOK'
<1>1. /\ DOMAIN fd_array = FD /\ fd_array = [h \in FD |-> fd_array[h]]
      /\ \A h \in FD : Described(fd_array[h])
  BY TypeIs
<1>2. /\ fd_array' = [h \in FD |-> IF h = fd THEN f ELSE fd_array[h]]
  BY <1>1
<1>3. \A h \in FD : Described(fd_array'[h])
  BY <1>1, <1>2
<1>4. QED
  BY <1>2, <1>3 DEF TypeOK, Described, WithinExtent, Descriptor, Holders

LEMMA MovedIs ==
  ASSUME TypeOK, NEW fd \in FD, fd_array[fd].item # NULL,
         NEW o \in 0 .. Extent(fd_array[fd].item)
  PROVE  LET f == [fd_array[fd] EXCEPT !.offset = o]
         IN  /\ Described(f)
             /\ f.owner = fd_array[fd].owner /\ f.item = fd_array[fd].item /\ f.offset = o
<1> DEFINE f == [fd_array[fd] EXCEPT !.offset = o]
<1>1. Described(fd_array[fd])
  BY TypeIs
<1>2. fd_array[fd].item \in Item
  BY <1>1 DEF Described, WithinExtent, Descriptor, Holders
<1>3. o \in Nat /\ o <= Extent(fd_array[fd].item)
  BY <1>2, ExtentIs
<1>4. /\ f \in Descriptor(Holders) /\ f.offset = o
      /\ f.owner = fd_array[fd].owner /\ f.item = fd_array[fd].item
  BY <1>1, <1>3 DEF Described, WithinExtent, Descriptor, Holders
<1> HIDE DEF f
<1>5. Described(f)
  BY <1>3, <1>4 DEF Described, WithinExtent
<1>6. QED
  BY <1>4, <1>5 DEF f

LEMMA FreedIs ==
  ASSUME TypeOK, NEW fd \in FD
  PROVE  LET f == [fd_array[fd] EXCEPT !.owner = UNUSED]
         IN  Described(f) /\ f.owner = UNUSED
<1> DEFINE f == [fd_array[fd] EXCEPT !.owner = UNUSED]
<1>1. Described(fd_array[fd])
  BY TypeIs
<1>2. /\ f \in Descriptor(Holders) /\ f.owner = UNUSED
      /\ f.item = fd_array[fd].item /\ f.offset = fd_array[fd].offset
  BY <1>1 DEF Described, WithinExtent, Descriptor, Holders
<1> HIDE DEF f
<1>3. Described(f)
  BY <1>1, <1>2 DEF Described, WithinExtent
<1>4. QED
  BY <1>2, <1>3 DEF f

LEMMA TypeInit == Init => TypeOK
<1> DEFINE f == [owner |-> UNUSED, offset |-> 0, item |-> NULL]
<1>1. f \in Descriptor(Holders) /\ f.item = NULL
  BY DEF Descriptor, Holders
<1> HIDE DEF f
<1>2. ASSUME fd_array = [fd \in FD |-> f] PROVE TypeOK
  BY <1>1, <1>2 DEF TypeOK, Descriptor, Holders
<1>3. QED
  BY <1>2 DEF Init, InitFDs, f

LEMMA TypeNext == TypeOK /\ [Next]_vars => TypeOK'
<1> SUFFICES ASSUME TypeOK, [Next]_vars PROVE TypeOK'
  OBVIOUS
<1>1. CASE UNCHANGED fd_array
  BY <1>1 DEF TypeOK
<1>2. ASSUME NEW c \in Clients, NEW path \in Paths, Open(c, path) PROVE TypeOK'
  <2>1. path \in Checked /\ fd_array' = OpenObj(fd_array, path, c).fds
    BY <1>2, ClientAssumption DEF Open
  <2>2. CASE Unused(fd_array) = {}
    BY <1>1, <2>1, <2>2, OpenIs
  <2>3. CASE Unused(fd_array) # {}
    <3> DEFINE fd == Least(Unused(fd_array))
               f == [owner |-> c, offset |-> 0, item |-> FindName(path)]
    <3>1. fd \in FD /\ Described(f) /\ fd_array' = [fd_array EXCEPT ![fd] = f]
      BY <2>1, <2>3, OpenIs
    <3> HIDE DEF fd, f
    <3>2. QED
      BY <3>1, TypeStep
  <2>4. QED
    BY <2>2, <2>3
<1>3. ASSUME NEW c \in Clients, NEW fd \in Number, Read(c, fd) PROVE TypeOK'
  <2>1. fd_array' = ReadObj(fd_array, fd, c).fds
    BY <1>3 DEF Read
  <2>2. CASE CanAccessFD(fd_array, fd, c)
    <3>1. fd \in FD /\ fd_array[fd].owner = c /\ fd_array[fd].item # NULL
      BY <1>3, <2>2 DEF Read, CanAccessFD
    <3>2. PICK o \in 0 .. Extent(fd_array[fd].item) :
            ReadObj(fd_array, fd, c).fds = MovedTo(fd_array, fd, o)
      BY <3>1, ReadIs DEF Reads
    <3> DEFINE f == [fd_array[fd] EXCEPT !.offset = o]
    <3>3. Described(f)
      BY <3>1, MovedIs
    <3>4. fd_array' = [fd_array EXCEPT ![fd] = f]
      BY <2>1, <3>2 DEF MovedTo
    <3> HIDE DEF f
    <3>5. QED
      BY <3>1, <3>3, <3>4, TypeStep
  <2>3. CASE ~CanAccessFD(fd_array, fd, c)
    BY <1>1, <2>1, <2>3 DEF ReadObj
  <2>4. QED
    BY <2>2, <2>3
<1>4. ASSUME NEW c \in Clients, NEW fd \in Number, Close(c, fd) PROVE TypeOK'
  <2>1. fd_array' = CloseObj(fd_array, fd, c).fds
    BY <1>4 DEF Close
  <2>2. CASE CanAccessFD(fd_array, fd, c)
    <3> DEFINE f == [fd_array[fd] EXCEPT !.owner = UNUSED]
    <3>1. fd \in FD /\ fd_array' = [fd_array EXCEPT ![fd] = f]
      <4>1. fd_array' = Freed(fd_array, fd)
        BY <2>1, <2>2, CloseIs
      <4>2. QED
        BY <2>2, <4>1 DEF CanAccessFD, Freed
    <3>2. Described(f)
      BY <3>1, FreedIs
    <3> HIDE DEF f
    <3>3. QED
      BY <3>1, <3>2, TypeStep
  <2>3. CASE ~CanAccessFD(fd_array, fd, c)
    BY <1>1, <2>1, <2>3, CloseIs
  <2>4. QED
    BY <2>2, <2>3
<1>5. QED
  BY <1>1, <1>2, <1>3, <1>4 DEF Next, Chk, Unserved, vars

(* Whatever the clients ask, and in whatever order, a descriptor is free or *)
(* a client's, and its offset never gets past the end of its item: ReadObj()*)
(* stops at equality of size and offset (FileService.c:273).                *)
THEOREM FileServiceTypes == Spec => []TypeOK
<1>1. QED
  BY TypeInit, TypeNext, PTL DEF Spec

-----------------------------------------------------------------------------
(***************************************************************************)
(* FileService implements Streams.                                         *)
(***************************************************************************)
Owners == [fd \in FD |-> fd_array[fd].owner]
Rests  == [fd \in FD |-> RestOf(fd_array[fd])]

LEMMA RestIs ==
  ASSUME NEW f, Described(f), f.owner # UNUSED
  PROVE  /\ f.item = NULL => RestOf(f) = <<>>
         /\ f.item # NULL => RestOf(f) = Rest(f.item, f.offset)
<1>1. CASE f.item = NULL
  BY <1>1 DEF RestOf
<1>2. CASE f.item # NULL
  <2>1. f.item \in Item /\ f.offset \in Nat /\ f.offset <= Extent(f.item)
    BY <1>2 DEF Described, WithinExtent, Descriptor, Holders
  <2>2. f.offset \in 0 .. Extent(f.item)
    BY <2>1, ExtentIs
  <2>3. RestOf(f) = Left[f.item][f.offset]
    BY <1>2 DEF RestOf
  <2>4. QED
    BY <1>2, <2>1, <2>2, <2>3, LeftIs
<1>3. QED
  BY <1>1, <1>2

LEMMA ContentIs ==
  ASSUME NEW item \in Item
  PROVE  Content[item] = Rest(item, 0)
<1>1. 0 \in 0 .. Extent(item)
  BY ExtentIs
<1>2. QED
  BY <1>1, LeftIs DEF Content

(* What a change of one descriptor is to the abstract service.              *)
LEMMA OneDescriptor ==
  ASSUME TypeOK, NEW fd \in FD, NEW f, fd_array' = [fd_array EXCEPT ![fd] = f]
  PROVE  /\ Owners' = [Owners EXCEPT ![fd] = f.owner]
         /\ Rests' = [Rests EXCEPT ![fd] = RestOf(f)]
<1>1. DOMAIN fd_array = FD
  BY TypeIs
<1>2. \A h \in FD : fd_array'[h] = IF h = fd THEN f ELSE fd_array[h]
  BY <1>1
<1>3. Owners' = [h \in FD |-> fd_array'[h].owner]
  BY DEF Owners
<1>4. Rests' = [h \in FD |-> RestOf(fd_array'[h])]
  BY DEF Rests
<1>5. Owners' = [h \in FD |-> IF h = fd THEN f.owner ELSE fd_array[h].owner]
  BY <1>2, <1>3
<1>6. Rests' = [h \in FD |-> IF h = fd THEN RestOf(f) ELSE RestOf(fd_array[h])]
  BY <1>2, <1>4
<1>7. [Owners EXCEPT ![fd] = f.owner]
        = [h \in FD |-> IF h = fd THEN f.owner ELSE fd_array[h].owner]
  BY DEF Owners
<1>8. [Rests EXCEPT ![fd] = RestOf(f)]
        = [h \in FD |-> IF h = fd THEN RestOf(f) ELSE RestOf(fd_array[h])]
  BY DEF Rests
<1>9. QED
  BY <1>5, <1>6, <1>7, <1>8

LEMMA NoDescriptor ==
  ASSUME UNCHANGED fd_array
  PROVE  UNCHANGED <<Owners, Rests>>
BY DEF Owners, Rests

LEMMA ServiceInit == Init => Service!Init
<1> SUFFICES ASSUME Init PROVE Service!Init
  OBVIOUS
<1>1. \A fd \in FD : fd_array[fd].owner = UNUSED
  BY DEF Init, InitFDs
<1>2. \A fd \in FD : RestOf(fd_array[fd]) = <<>>
  BY <1>1 DEF RestOf
<1>3. QED
  BY <1>1, <1>2 DEF Init, Service!Init

(* The codes are the same.                                                  *)
LEMMA SameCodes ==
  /\ Service!Code["good"] = GOOD /\ Service!Code["unfound"] = UNFOUND
  /\ Service!Code["unknown"] = UNKNOWN /\ Service!Code["full"] = NO_FD
  /\ Service!Code["end"] = FM_EOF /\ Service!Code["refused"] = ILL_PARAM
BY DEF Service!Code, GOOD, UNFOUND, UNKNOWN, NO_FD, FM_EOF, ILL_PARAM

LEMMA OpenStep ==
  ASSUME TypeOK, NEW c \in Clients, NEW path \in Paths, Open(c, path)
  PROVE  Service!Open(c, path)
<1> DEFINE fd == Least(Unused(fd_array))
           f == [owner |-> c, offset |-> 0, item |-> FindName(path)]
           r == OpenObj(fd_array, path, c)
<1>1. /\ path \in Checked /\ fd_array' = r.fds
      /\ reply' = [to |-> c, path |-> path, code |-> r.code, fd |-> r.fd, data |-> NULL]
  BY ClientAssumption DEF Open, Reply
<1>2. FindName(path) \in Item \cup {NULL} /\ FindName(path) = Found[path]
  BY <1>1, FindNameType
<1>3. Service!Free = Unused(fd_array)
  BY DEF Service!Free, Unused
<1>4. CASE Unused(fd_array) = {}
  <2>1. r.code = NO_FD /\ r.fd = NULL /\ fd_array' = fd_array
    BY <1>1, <1>4, OpenIs
  <2>2. UNCHANGED <<Owners, Rests>>
    BY <2>1, NoDescriptor
  <2>3. Service!Answer(c, path, "full", NULL, NULL)
    BY <1>1, <2>1, SameCodes DEF Service!Answer
  <2>4. QED
    BY <1>3, <1>4, <2>2, <2>3 DEF Service!Open, Owners, Rests
<1>5. CASE Unused(fd_array) # {}
  <2>1. /\ fd \in FD /\ fd_array[fd].owner = UNUSED /\ Described(f)
        /\ fd_array' = [fd_array EXCEPT ![fd] = f]
    BY <1>1, <1>5, OpenIs
  <2>2. fd \in Service!Free
    BY <1>3, <2>1 DEF Unused
  <2>3. /\ Owners' = [Owners EXCEPT ![fd] = c]
        /\ Rests' = [Rests EXCEPT ![fd] = RestOf(f)]
    <3>1. f.owner = c
      OBVIOUS
    <3> HIDE DEF fd, f
    <3>2. QED
      BY <2>1, <3>1, OneDescriptor
  <2>4. f.owner # UNUSED /\ f.item = FindName(path) /\ f.offset = 0
    BY ClientAssumption
  <2>5. CASE FindName(path) = NULL
    <3>1. r.code = UNFOUND /\ r.fd = NULL
      BY <1>1, <1>5, <2>5, OpenIs
    <3>2. RestOf(f) = <<>>
      BY <2>1, <2>4, <2>5, RestIs
    <3>3. Service!Answer(c, path, "unfound", NULL, NULL)
      BY <1>1, <3>1, SameCodes DEF Service!Answer
    <3>4. Service!Take(fd, c, <<>>)
      <4> HIDE DEF fd, f
      <4>1. QED
        BY <2>3, <3>2 DEF Service!Take, Owners, Rests
    <3> HIDE DEF fd
    <3>5. QED
      BY <1>2, <2>2, <2>5, <3>3, <3>4 DEF Service!Open
  <2>6. CASE FindName(path) # NULL
    <3>1. r.code = GOOD /\ r.fd = fd
      BY <1>1, <1>5, <2>6, OpenIs
    <3>2. RestOf(f) = Content[Found[path]]
      <4>1. RestOf(f) = Rest(FindName(path), 0)
        BY <2>1, <2>4, <2>6, RestIs
      <4>2. QED
        BY <1>2, <2>6, <4>1, ContentIs
    <3>3. Service!Answer(c, path, "good", fd, NULL)
      <4> HIDE DEF fd
      <4>1. QED
        BY <1>1, <3>1, SameCodes DEF Service!Answer
    <3>4. Service!Take(fd, c, Content[Found[path]])
      <4> HIDE DEF fd, f
      <4>1. QED
        BY <2>3, <3>2 DEF Service!Take, Owners, Rests
    <3> HIDE DEF fd
    <3>5. QED
      BY <1>2, <2>2, <2>6, <3>3, <3>4 DEF Service!Open
  <2>7. QED
    BY <2>5, <2>6
<1>6. QED
  BY <1>4, <1>5

LEMMA RefuseStep ==
  ASSUME NEW c \in Clients, NEW fd, ~CanAccessFD(fd_array, fd, c),
         UNCHANGED fd_array, Reply(c, NULL, ILL_PARAM, fd, NULL)
  PROVE  Service!Refuse(c, fd)
<1>1. UNCHANGED <<Owners, Rests>>
  BY NoDescriptor
<1>2. ~Service!Owns(c, fd)
  BY DEF Service!Owns, CanAccessFD
<1>3. QED
  BY <1>1, <1>2, SameCodes DEF Reply, Service!Answer, Service!Refuse, Owners, Rests

LEMMA ChkStep ==
  ASSUME NEW c \in Clients, NEW path \in Checked, Chk(c, path)
  PROVE  Service!Check(c, path)
<1>1. UNCHANGED <<Owners, Rests>>
  BY NoDescriptor DEF Chk
<1>2. FindName(path) = Found[path]
  BY FindNameType
<1>3. CASE FindName(path) = NULL
  <2>1. reply' = [to |-> c, path |-> path, code |-> UNFOUND, fd |-> NULL, data |-> NULL]
    BY <1>3 DEF Chk, Reply, ChkObj
  <2>2. Service!Answer(c, path, "unfound", NULL, NULL)
    BY <2>1, SameCodes DEF Service!Answer
  <2>3. QED
    BY <1>1, <1>2, <1>3, <2>2 DEF Service!Check, Owners, Rests
<1>4. CASE FindName(path) # NULL
  <2>1. reply' = [to |-> c, path |-> path, code |-> GOOD, fd |-> NULL, data |-> Found[path]]
    BY <1>2, <1>4 DEF Chk, Reply, ChkObj
  <2>2. Service!Answer(c, path, "good", NULL, Found[path])
    BY <2>1, SameCodes DEF Service!Answer
  <2>3. QED
    BY <1>1, <1>2, <1>4, <2>2 DEF Service!Check, Owners, Rests
<1>5. QED
  BY <1>3, <1>4

LEMMA ReadStep ==
  ASSUME TypeOK, NEW c \in Clients, NEW fd, Read(c, fd)
  PROVE  (fd \in FD /\ Service!Read(c, fd)) \/ Service!Refuse(c, fd)
<1> DEFINE r == ReadObj(fd_array, fd, c)
<1>1. fd_array' = r.fds /\ Reply(c, NULL, r.code, fd, r.data)
  BY DEF Read
<1>2. CASE ~CanAccessFD(fd_array, fd, c)
  <2>1. r.code = ILL_PARAM /\ r.data = NULL /\ r.fds = fd_array
    BY <1>2 DEF ReadObj
  <2> HIDE DEF r
  <2>2. fd_array' = fd_array /\ Reply(c, NULL, ILL_PARAM, fd, NULL)
    BY <1>1, <2>1
  <2>3. QED
    BY <1>2, <2>2, RefuseStep
<1>3. CASE CanAccessFD(fd_array, fd, c)
  <2> DEFINE item == fd_array[fd].item
             before == Rest(item, fd_array[fd].offset)
  <2>1. fd \in FD /\ fd_array[fd].owner = c /\ item # NULL /\ c # UNUSED
    BY <1>3, ClientAssumption DEF Read, CanAccessFD
  <2>2. PICK o \in 0 .. Extent(item) :
          r.fds = MovedTo(fd_array, fd, o) /\ Returned(r, before, Rest(item, o))
    BY <2>1, ReadIs DEF Reads
  <2> DEFINE f == [fd_array[fd] EXCEPT !.offset = o]
             after == Rest(item, o)
  <2>3. Described(f) /\ f.owner = c /\ f.item = item /\ f.offset = o
    BY <2>1, MovedIs
  <2>4. fd_array' = [fd_array EXCEPT ![fd] = f]
    BY <1>1, <2>2 DEF MovedTo
  <2>5. RestOf(f) = after
    <3> HIDE DEF f
    <3>1. RestOf(f) = Rest(f.item, f.offset)
      BY <2>1, <2>3, RestIs
    <3>2. QED
      BY <2>3, <3>1
  <2>6. RestOf(fd_array[fd]) = before
    BY <2>1, TypeIs, RestIs
  <2>7. Owners' = [Owners EXCEPT ![fd] = c] /\ Rests' = [Rests EXCEPT ![fd] = after]
    <3> HIDE DEF f, after
    <3>1. /\ Owners' = [Owners EXCEPT ![fd] = f.owner]
          /\ Rests' = [Rests EXCEPT ![fd] = RestOf(f)]
      BY <2>1, <2>4, OneDescriptor
    <3>2. f.owner = c
      BY <2>3
    <3>3. QED
      BY <2>5, <3>1, <3>2
  <2>8. Owners[fd] = c /\ Rests[fd] = before
    BY <2>1, <2>6 DEF Owners, Rests
  <2> HIDE DEF r, before, after, item
  <2>9. Owners' = Owners
    <3>1. Owners = [h \in FD |-> Owners[h]]
      BY DEF Owners
    <3>2. [Owners EXCEPT ![fd] = c] = Owners
      BY <2>8, <3>1
    <3>3. QED
      BY <2>7, <3>2
  <2>10. Service!Owns(c, fd)
    BY <2>1 DEF Service!Owns
  <2>11. CASE before # <<>> /\ r.code = GOOD /\ r.data = Head(before) /\ after = Tail(before)
    <3>1. Service!Answer(c, NULL, "good", fd, Head(before))
      BY <1>1, <2>11, SameCodes DEF Reply, Service!Answer
    <3>2. Rests' = [Rests EXCEPT ![fd] = Tail(@)]
      BY <2>7, <2>8, <2>11
    <3>3. Service!Read(c, fd)
      BY <2>8, <2>9, <2>10, <2>11, <3>1, <3>2 DEF Service!Read, Owners, Rests
    <3>4. QED
      BY <2>1, <3>3
  <2>12. CASE before = <<>> /\ r.code = FM_EOF /\ r.data = NULL /\ after = <<>>
    <3>1. Service!Answer(c, NULL, "end", fd, NULL)
      BY <1>1, <2>12, SameCodes DEF Reply, Service!Answer
    <3>2. Rests' = Rests
      <4>1. Rests = [h \in FD |-> Rests[h]]
        BY DEF Rests
      <4>2. [Rests EXCEPT ![fd] = after] = Rests
        BY <2>8, <2>12, <4>1
      <4>3. QED
        BY <2>7, <4>2
    <3>3. Service!Read(c, fd)
      BY <2>8, <2>9, <2>10, <2>12, <3>1, <3>2 DEF Service!Read, Owners, Rests
    <3>4. QED
      BY <2>1, <3>3
  <2>13. QED
    BY <2>2, <2>11, <2>12 DEF Returned, after
<1>4. QED
  BY <1>2, <1>3

LEMMA CloseStep ==
  ASSUME TypeOK, NEW c \in Clients, NEW fd, Close(c, fd)
  PROVE  (fd \in FD /\ Service!Close(c, fd)) \/ Service!Refuse(c, fd)
<1> DEFINE r == CloseObj(fd_array, fd, c)
<1>1. fd_array' = r.fds /\ Reply(c, NULL, r.code, fd, NULL)
  BY DEF Close
<1>2. CASE ~CanAccessFD(fd_array, fd, c)
  <2>1. r.code = ILL_PARAM /\ r.fds = fd_array
    BY <1>2, CloseIs
  <2> HIDE DEF r
  <2>2. fd_array' = fd_array /\ Reply(c, NULL, ILL_PARAM, fd, NULL)
    BY <1>1, <2>1
  <2>3. QED
    BY <1>2, <2>2, RefuseStep
<1>3. CASE CanAccessFD(fd_array, fd, c)
  <2> DEFINE f == [fd_array[fd] EXCEPT !.owner = UNUSED]
  <2>1. fd \in FD /\ fd_array[fd].owner = c
    BY <1>3 DEF CanAccessFD
  <2>2. r.code = GOOD /\ r.fds = Freed(fd_array, fd)
    BY <1>3, CloseIs
  <2>3. fd_array' = [fd_array EXCEPT ![fd] = f]
    BY <1>1, <2>2 DEF Freed
  <2>4. f.owner = UNUSED
    BY <2>1, FreedIs
  <2> HIDE DEF f, r
  <2>5. RestOf(f) = <<>>
    BY <2>4 DEF RestOf
  <2>6. Owners' = [Owners EXCEPT ![fd] = UNUSED] /\ Rests' = [Rests EXCEPT ![fd] = <<>>]
    BY <2>1, <2>3, <2>4, <2>5, OneDescriptor
  <2>7. Service!Answer(c, NULL, "good", fd, NULL)
    BY <1>1, <2>2, SameCodes DEF Reply, Service!Answer
  <2>8. Service!Owns(c, fd)
    BY <2>1 DEF Service!Owns
  <2>9. Service!Close(c, fd)
    BY <2>6, <2>7, <2>8 DEF Service!Close, Owners, Rests
  <2>10. QED
    BY <2>1, <2>9
<1>4. QED
  BY <1>2, <1>3

LEMMA ServiceNext == TypeOK /\ [Next]_vars => [Service!Next]_<<Owners, Rests, reply>>
<1> SUFFICES ASSUME TypeOK, [Next]_vars
             PROVE  Service!Next \/ UNCHANGED <<Owners, Rests, reply>>
  OBVIOUS
<1>1. DOMAIN Found = Checked
  BY DEF Found
<1>2. CASE UNCHANGED vars
  BY <1>2, NoDescriptor DEF vars
<1>3. ASSUME NEW c \in Clients, NEW path \in Checked, Chk(c, path) PROVE Service!Next
  BY <1>1, <1>3, ChkStep DEF Service!Next
<1>4. ASSUME NEW c \in Clients, NEW path \in Paths, Open(c, path) PROVE Service!Next
  <2>1. path \in Checked
    BY ClientAssumption
  <2>2. Service!Open(c, path)
    BY <1>4, OpenStep
  <2>3. QED
    BY <1>1, <2>1, <2>2 DEF Service!Next
<1>5. ASSUME NEW c \in Clients, NEW fd \in Number, Read(c, fd) PROVE Service!Next
  <2>1. (fd \in FD /\ Service!Read(c, fd)) \/ Service!Refuse(c, fd)
    BY <1>5, ReadStep
  <2>2. QED
    BY <2>1 DEF Service!Next
<1>6. ASSUME NEW c \in Clients, NEW fd \in Number, Close(c, fd) PROVE Service!Next
  <2>1. (fd \in FD /\ Service!Close(c, fd)) \/ Service!Refuse(c, fd)
    BY <1>6, CloseStep
  <2>2. QED
    BY <2>1 DEF Service!Next
<1>7. ASSUME NEW c \in Clients, Unserved(c) PROVE Service!Next
  <2>1. UNCHANGED <<Owners, Rests>>
    BY <1>7, NoDescriptor DEF Unserved
  <2>2. Service!Reject(c)
    BY <1>7, <2>1, SameCodes
       DEF Unserved, Reply, Service!Answer, Service!Reject, Owners, Rests
  <2>3. QED
    BY <2>2 DEF Service!Next
<1>8. QED
  BY <1>2, <1>3, <1>4, <1>5, <1>6, <1>7 DEF Next

(* The file service keeps what Streams promises.  The induction over the    *)
(* steps needs TypeOK: an offset within what the item holds.                *)
THEOREM ImplementsStreams == Spec => ServesStreams
<1>1. Spec => []TypeOK
  BY FileServiceTypes
<1>2. QED
  BY <1>1, ServiceInit, ServiceNext, PTL
     DEF Spec, ServesStreams, Service!Spec, Owners, Rests
=============================================================================
