------------------------------- MODULE MCHttp -------------------------------
(* A small instance of HttpServer for TLC: a hasty client that asks for a    *)
(* file which is edited, or with POST, and a patient one that asks for a     *)
(* file, a directory, a file that is not there, or with another method.      *)
EXTENDS HttpServer, TLC

CONSTANTS c1, c2, page, folder, edited, nowhere

TwoConns  == {c1, c2}
OneFd     == {2}
AllFiles  == {page, folder, edited, nowhere}

Get(f)     == [method |-> "GET", path |-> f]
Without(m) == [method |-> m, path |-> NoFile]
MixedTalk  == c1 :> {Get(edited), Without("POST")}
           @@ c2 :> {Get(page), Get(folder), Get(nowhere), Without("other")}
TwoAndOne  == c1 :> 2 @@ c2 :> 1

ThreeThere == {page :> 1 @@ folder :> 1 @@ edited :> 1 @@ nowhere :> Missing}
=============================================================================
