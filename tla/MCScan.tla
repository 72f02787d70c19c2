-------------------------------- MODULE MCScan --------------------------------
(***************************************************************************)
(* Small trees for Scan.                                                   *)
(***************************************************************************)
EXTENDS Scan

(* An int of one bit: sizes and times have two, and those that differ by   *)
(* two are taken to be the same.                                           *)
MCIntValues == 2
MCNames == [i \in {1} |-> "root"]

File ==
  [ftype |-> "REGULAR", size |-> 0, uid |-> 0, gid |-> 1, atime |-> 0, ctime |-> 0, mtime |-> 0,
   mode |-> {<<"owner", "read">>}, hash |-> 0, readable |-> TRUE, acl |-> << >>,
   dangling |-> FALSE]
Dir == [File EXCEPT !.ftype = "DIRECTORY", !.mode = {<<"owner", "execute">>, <<"flag", "sticky">>}]
Link == [File EXCEPT !.ftype = "SYMBOLIC_LINK"]
Sized(n) == [File EXCEPT !.size = n]

root == <<"/">>
d    == <<"/", "d">>
da   == d \o <<"/", "a">>
db   == d \o <<"/", "b">>
de   == d \o <<"/", "e">>
dea  == de \o <<"/", "a">>
star == d \o <<"/", "*">>
all  == d \o <<"/", "*", "*">>

(* The types by their numbers in a request; a number that is not one.      *)
Fb(t) == {AttributeTypeToFb(x) : x \in t}
Unknown == {0, 6}
Plain == Fb({"FILE_TYPE", "SIZE"})
Scenario(t, c, i, x, a, n) ==
  [tree |-> (root :> Dir) @@ t, changes |-> c, incl |-> i, excl |-> x, types |-> a, times |-> n]

(* A tree that is included as a whole: sizes and kinds change.             *)
Whole ==
  Scenario((d :> Dir) @@ (da :> Sized(2)) @@ (de :> Dir) @@ (dea :> Link),
           {<<da, Sized(1)>>, <<da, File>>, <<da, Nothing>>, <<dea, [Link EXCEPT !.dangling = TRUE]>>,
            <<db, File>>},
           <<all>>, {}, {Plain}, 1)

(* The directory below is not matched, and may go, or cannot be read.      *)
Partial ==
  Scenario((d :> Dir) @@ (da :> File) @@ (de :> Dir) @@ (dea :> File),
           {<<de, Nothing>>, <<de, [Dir EXCEPT !.readable = FALSE]>>, <<dea, Sized(1)>>},
           <<d \o <<"/", "/", "?">>, <<"?">>, root \o <<"?">> >>, {dea \o <<"/">>, db}, {Fb({"SIZE"})}, 1)

(* The top directory, and one that is a file sometimes.                    *)
Top ==
  Scenario((d :> Dir) @@ (da :> File), {<<d, File>>, <<d, Dir>>, <<d, Nothing>>, <<da, File>>},
           <<root \o <<"*", "*">> >>, {}, {Fb({"FILE_TYPE", "POSIX_PERMISSIONS", "USER", "GROUP"})}, 1)

(* Names: a file called `*', whose events look at an excluded file, too,   *)
(* and directories written with an escape.                                 *)
Escaped ==
  Scenario((d :> Dir) @@ (star :> File) @@ (<<"/", "*">> :> Dir) @@ (<<"/", "*", "/", "a">> :> File),
           {<<star, Sized(1)>>, <<star, Nothing>>, <<da, File>>},
           <<d \o <<"/", "\\", "*">>, <<"/", "\\", "*", "/", "a">>, <<"/", "\\", "*", "/", "?">> >>, {da},
           {Fb({"SIZE"})}, 1)

(* The configuration asks for more or less.                                *)
Reinstalled ==
  Scenario((d :> Dir) @@ (da :> File), {<<da, Sized(1)>>, <<da, [Sized(2) EXCEPT !.uid = 1]>>},
           <<da>>, {da}, {Fb({"SIZE"}), Fb({"SIZE", "USER"}), Unknown}, 2)

(* Hashes: of a file that may become unreadable, or a directory.           *)
Hashed ==
  Scenario((d :> Dir) @@ (da :> File),
           {<<da, [File EXCEPT !.hash = 1]>>, <<da, [File EXCEPT !.readable = FALSE]>>, <<da, Dir>>},
           <<d \o <<"/", "*", "a">> >>, {}, {Fb({"SHA256", "ACCESS_TIME"}), Fb({"SHA256", "METADATA_CHANGE_TIME"})}, 1)

(* Access control lists; and a directory with an escape it does not need.  *)
Entry(t, i) == [tag |-> t, id |-> i, perm |-> {"read"}]
Listed ==
  LET acl == <<Entry("USER_OBJ", 0), Entry("USER", 1), Entry("GROUP_OBJ", 0), Entry("OTHER", 0)>>
  IN  Scenario((d :> Dir) @@ (da :> [File EXCEPT !.acl = acl]) @@ (db :> File), {<<da, File>>, <<da, Sized(1)>>},
               <<da, <<"/", "\\", "d", "/", "b", "*">> >>, {}, {Fb({"POSIX_ACL", "SIZE", "MODIFICATION_TIME"})}, 2)

(* A name that ends with an escape.                                        *)
Unended ==
  Scenario((d :> Dir) @@ (da :> File), {<<d \o <<"/", "\\">>, File>>, <<da, Sized(1)>>},
           <<d \o <<"/", "*">>, d \o <<"/", "a", "\\", "\\">> >>, {}, {Plain}, 1)

MCScenarios == <<Whole, Partial, Top, Escaped, Reinstalled, Hashed, Listed, Unended>>

(* The matcher and what the patterns stand for agree on all patterns of up *)
(* to four characters and all names of up to three.                        *)
Strings(S, n) == UNION {[1..k -> S] : k \in 0..n}
ASSUME MatcherAgrees ==
  \A p \in Strings({"a", "*", "?", Sep, Escape}, 4), n \in Strings({"a", Sep}, 3) :
    Matches(n, p) = Designates(p, n)

================================================================================
