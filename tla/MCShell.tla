------------------------------ MODULE MCShell -------------------------------
(* Shell for TLC, over the preloaded objects.                               *)
EXTENDS Shell, Objects

Payload == Messages

Line(verb, path) == [verb |-> verb, path |-> path]

Typing(commands) ==
  [login    |-> {Line("run", <<"n">>)},
   password |-> {Line("run", <<"n">>), Line("end", NULL)},
   line     |-> commands]

(* A directory listed and files shown, with and without an argument, what   *)
(* is not found, what is no file, a line that is no command, and take5,     *)
(* the program that sleeps.                                                 *)
QuietLines ==
  Typing({ Line("end", NULL), Line("dir", NULL),
           Line("cat", NULL), Line("cat", <<SLASH, "h">>), Line("run", <<>>),
           Line("run", <<"bin", SLASH, "t">>) })

(* test, the program that does not sleep.                                   *)
TestLines == Typing({ Line("run", <<"bin", SLASH, "test">>) })

MCRemains == {<<"b">>}
=============================================================================
