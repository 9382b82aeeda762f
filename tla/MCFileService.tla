--------------------------- MODULE MCFileService ----------------------------
(* FileService for TLC, over the preloaded objects.                         *)
EXTENDS FileService, Objects, TLC

(* The service treats its clients alike.                                    *)
ClientSymmetry == Permutations(Clients)

(* Paths to a directory with a blank entry, a file of four slices, one of   *)
(* one slice and none.                                                     *)
MCPaths == { <<SLASH, "w">>, <<"2", SLASH, SLASH, "i">>, <<"n">>, <<"x">> }

(* No, two and three names; names that begin several entries, one or none;  *)
(* slashes in all places; paths by way of the root, a file and a program.   *)
MCChecked ==
  MCPaths \cup
  { <<>>, <<SLASH, SLASH>>, <<"1">>, <<SLASH, "b", SLASH, "t", SLASH>>,
    <<"h", SLASH, "h">>, <<"1", SLASH, "..", SLASH, SLASH, "h">>,
    <<"b", SLASH, "t", SLASH, ".">> }

(* Every entry is found by its own name: though a name finds the first      *)
(* entry it begins, no preloaded object is hidden by one in front of it.    *)
ASSUME NoneHidden ==
  \A item \in Item, parent \in Item :
    /\ Entry(item).name # NULL
    /\ parent[1] = root_dir /\ A_ISDIR(parent) /\ Entry(parent).data = item[1]
    => FindName(<<Entry(parent).name, SLASH, Entry(item).name>>) = item
=============================================================================
