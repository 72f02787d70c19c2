-------------------------------- MODULE MCAgent --------------------------------
(* An agent with two plugins that can be loaded and one that cannot, on a  *)
(* host whose first address may change, or have none, with configuration   *)
(* files of several forms.                                                 *)
EXTENDS Agent

Dir == <<"broken", "file", "hello">>

KindOf == [broken |-> "endless", file |-> "good", hello |-> "good"]

HandledBy == [broken |-> {}, file |-> {"monitor"}, hello |-> {"monitor", "set"}]

Lists == {<<"a">>, <<"b", "a">>, << >>}

InstalledIn == <<"/", "usr">>
DirsAtFirst == {<<"/">>, <<"/", "var">>, InstalledIn, <<"/", "closed">>}
ClosedDirs == {<<"/", "closed">>}
NotDirs == {<<"/", "var", "/", "x">>}

(* A document is written as a tree, whose nodes are then numbered.         *)
S(t) == [kind |-> "scalar", text |-> t]
M(pairs) == [kind |-> "mapping", pairs |-> pairs]
L(items) == [kind |-> "sequence", items |-> items]
K(key, node) == [key |-> S(key), value |-> node]

YellaDir == <<"/", "var", "/", "lib", "/", "/", "yella">>

(* A sequence of sections, one of them twice and one in another one, with  *)
(* settings of others, repeated ones, sizes with a unit, numbers with a    *)
(* space or a sign, and values of another form than they should have.      *)
Sections ==
  L(<<M(<<K("logger", M(<<K("router", S(<<"x">>))>>))>>),
      M(<<K("agent", M(<<K("data-dir", S(YellaDir)), K("router", S(<<"y">>)), K("router", S(<<"z">>)),
                         K("router", L(<<S(<<"x">>)>>)), K("max-spool-partition-size", S(<<"4", "M">>)),
                         K("unknown", S(<<"x">>)), K("poll-milliseconds", S(<<"x">>))>>))>>),
      M(<<K("file", M(<<K("max-queued-jobs", S(<<" ", "1", "2">>)), K("heartbeat-seconds", S(<<"9">>))>>)),
          K("agent", M(<<K("agent", M(<<K("heartbeat-seconds", S(<<"-", "7">>))>>)),
                         [key |-> L(<< >>), value |-> S(<<"x">>)]>>))>>)>>)

(* Settings that are in no section are everyone's, those in another one    *)
(* no one's.                                                               *)
NoSection ==
  M(<<K("router", S(<<"y">>)), K("data-dir", S(YellaDir)), K("file", M(<<K("data-dir", S(<<"own">>))>>)),
      K("max-message-size", S(<<"8">>)), K("item", M(<<K("router", S(<<"x">>))>>))>>)

(* Without a router, where the process works; and with a directory that    *)
(* cannot be made, none, a file for one, or for the one it is in.          *)
NoRouterSet == M(<<K("agent", M(<<K("heartbeat-seconds", S(<<"3">>)), K("data-dir", S(<<".">>))>>))>>)
ClosedDir == M(<<K("agent", M(<<K("plugin-dir", S(<<"/", "closed", "/", "plugin">>))>>))>>)
EmptyDir == M(<<K("agent", M(<<K("data-dir", S(<< >>))>>))>>)
FileForDir == M(<<K("agent", M(<<K("plugin-dir", S(<<"/", "var", "/", "x">>))>>))>>)
DirInFile == M(<<K("agent", M(<<K("data-dir", S(<<"/", "var", "/", "x", "/", "y">>))>>))>>)

(* The nodes of a tree, the first of which is the n-th: its root and those *)
(* of its trees, one after another, with the numbers of their roots.       *)
RECURSIVE Nodes(_, _)
Nodes(tree, n) ==
  LET Add(below, t) == [roots |-> Append(below.roots, n + 1 + Len(below.nodes)),
                        nodes |-> below.nodes \o Nodes(t, n + 1 + Len(below.nodes))]
      All(trees) == FoldLeft(Add, [roots |-> << >>, nodes |-> << >>], trees)
  IN  IF tree.kind = "scalar" THEN <<tree>>
      ELSE IF tree.kind = "sequence"
        THEN LET items == All(tree.items) IN <<L(items.roots)>> \o items.nodes
      ELSE LET pairs == All(FlattenSeq([i \in DOMAIN tree.pairs |-> <<tree.pairs[i].key, tree.pairs[i].value>>]))
           IN  <<M([i \in DOMAIN tree.pairs |-> [key |-> pairs.roots[2 * i - 1], value |-> pairs.roots[2 * i]]])>>
                 \o pairs.nodes

Letters ==
  {"/", ".", "etc", "yella.yaml", "var", "lib", "spool", "yella", "plugin", "bin", "file", "yella.stethoscope",
   "usr", "closed", "own", "x", "y", "z", "1", "2", "3", "4", "7", "8", "9", "M", " ", "-"}

Contents == {Nodes(t, 1) : t \in {Sections, NoSection, NoRouterSet, ClosedDir, EmptyDir, FileForDir, DirInFile}} \union {<< >>, Null}
Files ==
  [big : {FALSE}, readable : {TRUE}, doc : Contents]
    \union {[big |-> b, readable |-> b, doc |-> Nodes(NoSection, 1)] : b \in BOOLEAN}

(* A byte size is what it says, if it fits into the type it is read into.  *)
ASSUME ByteSizes ==
  \A n \in 0..9, u \in {"b", "k", "m", "g", "B", "K", "M", "G"}, b \in {<< >>, <<"b">>, <<"B">>} :
    LET power == [b |-> 0, k |-> 1, m |-> 2, g |-> 3, B |-> 0, K |-> 1, M |-> 2, G |-> 3][u]
        size == n * Kilo ^ power
    IN  power > 0 \/ b = << >> => size >= 4 * Kilo ^ 3 \/ ByteSize(<<ToString(n), u>> \o b) = size

(* What strtoull reads.                                                    *)
ASSUME NumbersAreRead ==
  /\ \A t \in {<<"7">>, <<" ", " ", "7">>, <<"+", "7">>, <<"0", "7", "x">>, <<" ", "7", " ", "1">>, <<"7", "-">>} :
       Strtoull(t) = 7
  /\ \A t \in {<< >>, <<" ">>, <<"-">>, <<"x", "7">>, <<"-", " ", "7">>, <<"+", "-", "7">>, <<"-", "0">>} :
       Strtoull(t) = 0
  /\ \A t \in {<<"-", "1">>, <<"9", "9", "9", "9", "9", "9", "9">>, <<"-", "9", "9", "9", "9", "9", "9", "9">>} :
       Strtoull(t) = UInt64 - 1

(* A parcel is the same after it was sent, to the second; one without a    *)
(* recipient is refused.                                                   *)
P == INSTANCE Parcel
Parcels ==
  [time : {0, 999, 2001}, sender : {"agent"}, recipient : {"router", Null}, type : {"beat"},
   cmp : {"LZ4", "NONE"}, seq : [major : {0, 1}, minor : {1}],
   grp : {Null} \union [identifier : {"g"}, disposition : {"MORE", "END"}], payload : {<< >>, <<1>>}]
ASSUME ParcelsArrive ==
  \A p \in Parcels :
    P!UnpackParcel(P!PackParcel(p)) =
      IF p.recipient = Null THEN Null ELSE [p EXCEPT !.time = @ - (@ % 1000)]

(* Vectors that are small or full: each operation is the one on sequences, *)
(* and a copy of more elements than a new vector has places for has them   *)
(* all.                                                                    *)
V == INSTANCE PtrVector WITH Pointers <- {"p", "q"}, NULL <- Null, Junk <- "junk"
Swapped == [e \in V!Elements |-> IF e = "p" THEN "q" ELSE IF e = "q" THEN "p" ELSE e]
Vector(s, capacity) ==
  [data |-> [i \in V!Places(capacity) |-> IF i < Len(s) THEN s[i + 1] ELSE "junk"], size |-> Len(s),
   capacity |-> capacity, destroys |-> TRUE, copier |-> Swapped, freed |-> << >>]
ASSUME VectorsAreSequences ==
  \A c \in 2..3, k \in 0..3 : k <= c =>
    \A s \in [1..k -> {"p", "q"}], other \in {<< >>, <<"p">>, <<"q", "p", "p", "q", "p">>} :
      LET v == Vector(s, c)
          w == Vector(other, 5)
          long == Vector([i \in 1..31 |-> IF i % 3 = 0 THEN "p" ELSE "q"], 31)
          Is(u, t) == V!AsSequence(u) = t
          Copied(t) == [i \in DOMAIN t |-> Swapped[t[i]]]
      IN  /\ Is(V!PushBack(v, "p"), Append(s, "p"))
          /\ Is(V!PushFront(v, "p"), <<"p">> \o s)
          /\ \A off \in 0..2 : Is(V!EraseAt(v, off), IF off < k THEN RemoveAt(s, off + 1) ELSE s)
          /\ Is(V!PopBack(v), IF k > 0 THEN Front(s) ELSE s)
          /\ Is(V!PopFront(v), IF k > 0 THEN Tail(s) ELSE s)
          /\ Is(V!Clear(v), << >>) /\ V!Destroyed(v) = s
          /\ Is(V!Copy(v), Copied(s)) /\ V!Copy(v).copier = Swapped
          /\ Is(V!Assign(v, w), Copied(other)) /\ V!Assign(v, w).freed = s
          /\ Is(V!Copy(long), Copied(V!AsSequence(long)))

===============================================================================
