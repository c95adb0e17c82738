---------------------------- MODULE MC_HashAction ----------------------------
(***************************************************************************)
(* Two workers and three records: a file-flow record whose file path and *)
(* executable are both listed, a process record with a listed executable, *)
(* and one with nothing listed.  The file lists /a twice, so the last     *)
(* line must win.                                                          *)
(***************************************************************************)
EXTENDS HashAction

MCRecords == { [ff |-> TRUE,  path |-> "/a", exe |-> "/b"],
               [ff |-> FALSE, path |-> "/a", exe |-> "/a"],
               [ff |-> FALSE, path |-> "",   exe |-> "/c"] }

\* md5,path lines; the second file has a line of three fields.
GoodCSV == << <<"h1", "/a">>, <<"h2", "/b">>, <<"h3", "/a">> >>
BadCSV  == << <<"h1", "/a">>, <<"h2", "/b", "x">>, <<"h3", "/a">> >>

MCFiles == {[exists |-> TRUE, rows |-> GoodCSV], [exists |-> FALSE, rows |-> << >>]}
MCFilesMalformed == {[exists |-> TRUE, rows |-> BadCSV]}
====
