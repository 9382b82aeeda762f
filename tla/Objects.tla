------------------------------ MODULE Objects -------------------------------
(***************************************************************************)
(* The preloaded objects of FileService.c.  The sizes of files are those   *)
(* of the arrays; a program's size depends on how it was built: BIN_SIZE   *)
(* stands for it.                                                          *)
(***************************************************************************)
EXTENDS FileTable, Functions

CONSTANT BIN_SIZE

HELP_TXT_SIZE   == 113
NOTE_TXT_SIZE   == 58
INDEX_HTML_SIZE == 320
HELLO_HTML_SIZE == 486

Directory(name, data) == [name |-> name, mode |-> "DIR", size |-> -1, data |-> data]
Program(name)    == [name |-> name, mode |-> "EXEC", size |-> BIN_SIZE, data |-> NULL]
File(name, size) == [name |-> name, mode |-> "FILE", size |-> size, data |-> NULL]
Blank            == [name |-> NULL, mode |-> "NONE", size |-> 0, data |-> NULL]

bin_dir ==
  << Directory(".", "bin_dir"), Directory("..", "root_dir"),
     Program("take5"), Program("say_hello"), Program("test") >>

www_dir ==
  << Directory(".", "www_dir"), Directory("..", "root_dir"),
     File("hello.html", HELLO_HTML_SIZE), File("index.html", INDEX_HTML_SIZE),
     File("1 (hello.html)", HELLO_HTML_SIZE),
     File("2 (index.html)", INDEX_HTML_SIZE), Blank >>

root_entries ==
  << Directory(".", "root_dir"),
     Directory("bin", "bin_dir"), Directory("www", "www_dir"),
     File("help.txt", HELP_TXT_SIZE), File("note.txt", NOTE_TXT_SIZE),
     Directory("1 (bin dir)", "bin_dir"), Directory("2 (www dir)", "www_dir"),
     File("3 (help.txt)", HELP_TXT_SIZE), File("4 (note.txt)", NOTE_TXT_SIZE),
     Blank >>

Preloaded ==
  [root_dir |-> root_entries, bin_dir |-> bin_dir, www_dir |-> www_dir]

(***************************************************************************)
(* Some of the names that begin other names (MyStrcmp() compares as many   *)
(* characters as the name asked for has).                                  *)
(***************************************************************************)
Begins ==
  { <<".", "..">>, <<"b", "bin">>, <<"w", "www">>, <<"h", "help.txt">>,
    <<"h", "hello.html">>, <<"n", "note.txt">>, <<"t", "take5">>,
    <<"t", "test">>, <<"1", "1 (bin dir)">>, <<"1", "1 (hello.html)">>,
    <<"2", "2 (www dir)">>, <<"2", "2 (index.html)">>, <<"i", "index.html">>,
    <<"3", "3 (help.txt)">> }

EntryNames ==
  {e.name : e \in UNION {Range(Preloaded[d]) : d \in DOMAIN Preloaded}} \ {NULL}

BeginningsOf == [n \in EntryNames |-> {n} \cup {b[1] : b \in {c \in Begins : c[2] = n}}]
=============================================================================
