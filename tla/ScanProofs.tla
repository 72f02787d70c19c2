------------------------------ MODULE ScanProofs -------------------------------
(***************************************************************************)
(* Whatever happens to the files meanwhile, the scans of the file plugin do*)
(* something undefined for the reasons listed only, and until then what    *)
(* they report of a file follows the row they keep of it, and the rows that*)
(* they keep agree with the files when there is nothing left to do.  A scan*)
(* during which no file changes looks at the files that its includes stand *)
(* for, and at no other.                                                   *)
(*                                                                         *)
(* No message of the router link, which takes the reports, vanishes, and   *)
(* none that was spooled is overtaken, for any senders, limits and bounds, *)
(* whichever errors happen.                                                *)
(*                                                                         *)
(* The scans and the link share no variable.                               *)
(***************************************************************************)
EXTENDS Scan, AgentRouter, NatSets, SequenceTheorems, TLAPS

-----------------------------------------------------------------------------
(* The scans of the file plugin.  The invariant; nothing follows something *)
(* undefined, so that some of it need not hold then.                       *)

(* A file is what it was or was made, but for the time of its last change, *)
(* which a hash changes.                                                   *)
FilesAt(p) ==
  LET made == PossibleContents(p) \ {Nothing}
  IN  made \union {[c EXCEPT !.ctime = x] : c \in made, x \in 0 .. Wide - 1}

(* The files have names of the scenario, and so have the events noted.     *)
TreeTyped ==
  /\ sc \in DOMAIN Scenarios
  /\ DOMAIN tree \subseteq PossibleNames
  /\ \A p \in DOMAIN tree : tree[p] \in FilesAt(p)
  /\ noted \subseteq PossibleNames

(* What is below a name is below a directory.                              *)
TreeIsWhole == \A p \in DOMAIN tree, q \in PossibleNames : IsBelow(p, q) => IsDirectory(q)

(* Events are delivered, and jobs done, for types that were installed.     *)
ConfigTyped ==
  /\ installs \in Nat /\ freed \in BOOLEAN
  /\ types \in {{}} \union InstalledTypes
  /\ installs > 0 => types \in InstalledTypes
  /\ noted # {} \/ queue # << >> \/ phase # "idle" => installs > 0
  /\ freed => \E r \in Sc.types : ~ Known(r)

(* What a job is about.                                                    *)
Jobs == [incl : Seq(Patterns), types : InstalledTypes, event : BOOLEAN]

(* The jobs that wait, and the one that runs.                              *)
JobsTyped ==
  /\ queue \in Seq(Jobs) /\ phase \in Phases
  /\ IF phase = "idle" THEN job = NoJob ELSE job \in Jobs

(* The crawl is for a pattern with a special character, and looks at what  *)
(* is in its directory, or below it.                                       *)
CrawlTop == TopDir(Head(job.incl))
InTop(p) == p \in PossibleNames /\ IsPrefix(CrawlTop, p) /\ p # CrawlTop
AtTop(p) == p \in PossibleNames /\ IsPrefix(CrawlTop, p)
Frames == [dir : {p \in PossibleNames : AtTop(p)}, left : SUBSET {p \in PossibleNames : InTop(p)},
           elem : {"unset", "freed", "null"}]
InCrawl == phase \in {"open", "entry", "type"}

Crawling ==
  /\ ~ InCrawl => frames = << >>
  /\ InCrawl => /\ job.incl # << >> /\ FirstUnescapedSpecialChar(Head(job.incl)) # 0
                /\ CrawlTop \in PossibleNames /\ frames \in Seq(Frames)
  /\ phase = "open" => AtTop(at) /\ (IsDirectory(at) \/ DirectoryMayGo)
  /\ phase = "type" => InTop(at)
  /\ undefined = "no" /\ phase \in {"entry", "type"} => frames # << >>

(* The rows are those of what the files are or were, and the reports have  *)
(* told what is in them.                                                   *)
RowMade(p, row) ==
  \E f \in FilesAt(p), T \in InstalledTypes : row = Pack(CollectAttributes(f, T))

ToldIs(u, row) == DOMAIN u = {FbToAttributeType(n) : n \in DOMAIN row} /\ Visible(Pack(u)) = Visible(row)

RowsMade ==
  /\ DOMAIN told = DOMAIN rows /\ DOMAIN rows \subseteq PossibleNames
  /\ \A p \in DOMAIN rows : RowMade(p, rows[p])
  /\ undefined = "no" => \A p \in DOMAIN rows : ToldIs(told[p], rows[p])

ScanInv ==
  /\ TreeTyped /\ TreeIsWhole /\ ConfigTyped /\ JobsTyped /\ Crawling /\ RowsMade
  /\ undefined \in {"no", "element", "iterator", "node", "acl", "types", "escape"} /\ UndefinedOnlyIf

-----------------------------------------------------------------------------
(* What is kept of a sequence                                              *)

(* The last value of it is what is gathered.                               *)
LEMMA GatheredIs ==
  ASSUME NEW s, NEW keep, Len(s) \in Nat
  PROVE  \E f : Keeps(f, s, keep, Len(s)) /\ Gathered(s, keep) = f[Len(s)]
<1> DEFINE n == Len(s)
           K(f) == Keeps(f, s, keep, n)
           kept == CHOOSE f : K(f)
<1>1. Gathered(s, keep) = kept[n]
  BY DEF Gathered, Keeps
<1>2. \E f : K(f)
  BY KeepsExist
<1> HIDE DEF K
<1>3. K(kept)
  BY <1>2
<1> HIDE DEF kept
<1> QED BY <1>1, <1>3 DEF K

(* What is gathered is a sequence of what is kept.                         *)
LEMMA GatheredIsSeq ==
  ASSUME NEW S, NEW s, Len(s) \in Nat, NEW keep, \A k \in 1 .. Len(s) : k \in keep => s[k] \in S
  PROVE  Gathered(s, keep) \in Seq(S)
<1> DEFINE n == Len(s)
<1>1. PICK f : Keeps(f, s, keep, n) /\ Gathered(s, keep) = f[n]
  BY GatheredIs
<1> DEFINE P == {k \in Nat : k <= n => f[k] \in Seq(S)}
<1>2. 0 \in P
  <2>1. f[0] = << >>
    BY <1>1, KeepsAt
  <2> QED BY <2>1, EmptySeq
<1> HIDE DEF n
<1>3. ASSUME NEW k \in P PROVE k + 1 \in P
  <2> SUFFICES ASSUME k + 1 <= n PROVE f[k + 1] \in Seq(S)
    OBVIOUS
  <2>1. k + 1 \in 0 .. n /\ k + 1 \in 1 .. n /\ (k + 1) - 1 = k /\ k + 1 # 0
    BY DEF n
  <2>2. f[k + 1] = IF k + 1 \in keep THEN Append(f[k], s[k + 1]) ELSE f[k]
    BY <1>1, <2>1, KeepsAt
  <2>3. f[k] \in Seq(S) /\ (k + 1 \in keep => s[k + 1] \in S)
    BY <2>1 DEF n
  <2>4. k + 1 \in keep => Append(f[k], s[k + 1]) \in Seq(S)
    BY <2>3, AppendProperties
  <2> QED BY <2>2, <2>3, <2>4
<1>4. P = Nat
  <2>1. P \in SUBSET Nat
    OBVIOUS
  <2> HIDE DEF P
  <2> QED BY <1>2, <1>3, <2>1, NatSetInduction
<1>5. n \in P
  BY <1>4 DEF n
<1> QED BY <1>1, <1>5 DEF n

-----------------------------------------------------------------------------
(* Attributes                                                              *)

(* The attribute types that have a number.                                 *)
AttrTypeSet == {AttrTypes[n] : n \in DOMAIN AttrTypes}

(* Every attribute type has a number of its own.                           *)
LEMMA AttrTypeNumbers ==
  /\ DOMAIN AttrTypes = 1 .. 10
  /\ \A n \in 1 .. 10 : AttributeTypeToFb(AttrTypes[n]) = n
<1>1. DOMAIN AttrTypes = 1 .. 10
  BY DEF AttrTypes
<1>2. \A m, n \in 1 .. 10 : AttrTypes[m] = AttrTypes[n] => m = n
  BY DEF AttrTypes
<1>3. ASSUME NEW n \in 1 .. 10 PROVE AttributeTypeToFb(AttrTypes[n]) = n
  <2>1. \E m \in DOMAIN AttrTypes : AttrTypes[m] = AttrTypes[n]
    BY <1>1
  <2>2. \A m \in DOMAIN AttrTypes : AttrTypes[m] = AttrTypes[n] => m = n
    BY <1>1, <1>2
  <2> QED BY <2>1, <2>2, <1>3 DEF AttributeTypeToFb
<1> QED BY <1>1, <1>3

(* Encoding and decoding a type of attribute are inverses.                 *)
LEMMA AttrTypeFacts ==
  /\ \A t \in AttrTypeSet : AttributeTypeToFb(t) \in DOMAIN AttrTypes /\ FbToAttributeType(AttributeTypeToFb(t)) = t
  /\ \A n \in DOMAIN AttrTypes : FbToAttributeType(n) \in AttrTypeSet /\ AttributeTypeToFb(FbToAttributeType(n)) = n
  /\ Numbers \subseteq AttrTypeSet
<1>1. Numbers \subseteq AttrTypeSet
  <2>1. {6, 7, 8, 9} \subseteq DOMAIN AttrTypes
    BY AttrTypeNumbers
  <2>2. AttrTypes[6] = "SIZE" /\ AttrTypes[7] = "ACCESS_TIME" /\ AttrTypes[8] = "METADATA_CHANGE_TIME"
        /\ AttrTypes[9] = "MODIFICATION_TIME"
    BY DEF AttrTypes
  <2> QED BY <2>1, <2>2 DEF AttrTypeSet, Numbers
<1> QED BY <1>1, AttrTypeNumbers DEF AttrTypeSet, FbToAttributeType

(* And so has every kind of file.                                          *)
FileTypeSet == {FileTypes[i] : i \in DOMAIN FileTypes}

(* Decoding the number of a kind of file gives that kind.                  *)
LEMMA FileTypeNumbers == \A ft \in FileTypeSet : FbToFileType(FileTypeToFb(ft)) = ft
<1>1. ASSUME NEW ft \in FileTypeSet PROVE FbToFileType(FileTypeToFb(ft)) = ft
  <2>1. \E i \in DOMAIN FileTypes : FileTypes[i] = ft
    BY DEF FileTypeSet
  <2> QED BY <2>1 DEF FileTypeToFb, FbToFileType
<1> QED BY <1>1

(* Numbers that differ by a multiple of an int's range are the same in it. *)
LEMMA SameInAnInt ==
  ASSUME NEW m \in Nat \ {0}, NEW l \in Int, NEW r \in Int, (l - r) % m = 0
  PROVE  l % m = r % m
<1>1. PICK x \in Int : l - r = m * x
  <2>1. l - r \in Int
    OBVIOUS
  <2>2. PICK q \in Int : l - r = m * q + ((l - r) % m)
    BY <2>1, Division
  <2>3. l - r = m * q + 0 /\ m * q \in Int
    BY <2>2
  <2> QED BY <2>3
<1>2. PICK z \in Int : l = m * z + (l % m)
  BY Division
<1>3. PICK y \in Int : r = m * y + (r % m)
  BY Division
<1>4. l % m \in 0 .. m - 1 /\ r % m \in 0 .. m - 1
  BY Division
<1>5. m * (x + y) = m * x + m * y /\ m * x \in Int /\ m * y \in Int /\ m * z \in Int
  OBVIOUS
<1> DEFINE s == l % m
           t == r % m
<1>6. m * z + s = m * (x + y) + t
  <2>1. s \in Int /\ t \in Int /\ l = m * z + s /\ r = m * y + t
    BY <1>2, <1>3, <1>4
  <2> HIDE DEF s, t
  <2> QED BY <2>1, <1>1, <1>5
<1>7. x + y \in Int /\ s \in 0 .. m - 1 /\ t \in 0 .. m - 1
  BY <1>4
<1>8. s = t
  <2> HIDE DEF s, t
  <2> QED BY <1>6, <1>7, OneRemainder
<1> QED BY <1>8

(* A sorted access control list has every entry of the one it is made of:  *)
(* the entries have places of their own, since one of two comes first.     *)
LEMMA AclPlaces ==
  ASSUME NEW f, IsContent(f), NEW i \in DOMAIN f.acl
  PROVE  \E n \in DOMAIN Acl(f.acl) : Acl(f.acl)[n] = AclEntry(f.acl[i])
<1> DEFINE acl == f.acl
           D == DOMAIN acl
           upto(j) == {k \in D : k = j \/ ComesFirst(acl, k, j)}
<1>1. /\ D = 1 .. Len(acl) /\ Len(acl) \in Nat
      /\ \A j \in D : acl[j].tag \in {AclTags[k] : k \in DOMAIN AclTags} /\ acl[j].id \in Int
  BY LenProperties DEF IsContent
<1>2. \A j \in D : Rank(acl[j]) \in Int
  <2>1. DOMAIN AclTags \subseteq Int
    BY DEF AclTags
  <2>2. ASSUME NEW j \in D PROVE Rank(acl[j]) \in DOMAIN AclTags
    <3>1. \E k \in DOMAIN AclTags : AclTags[k] = acl[j].tag
      BY <1>1
    <3> QED BY <3>1 DEF Rank
  <2> QED BY <2>1, <2>2
<1> HIDE DEF D, acl
<1>3. \A j, k \in D : j = k \/ ComesFirst(acl, j, k) \/ ComesFirst(acl, k, j)
  BY <1>1, <1>2 DEF ComesFirst
<1>4. \A j, k \in D : ComesFirst(acl, j, k) => j # k /\ ~ ComesFirst(acl, k, j)
  BY <1>1, <1>2 DEF ComesFirst
<1>5. \A h, j, k \in D : ComesFirst(acl, h, j) /\ ComesFirst(acl, j, k) => ComesFirst(acl, h, k)
  BY <1>1, <1>2 DEF ComesFirst
<1>6. IsFiniteSet(D) /\ Cardinality(D) = Len(acl)
  <2>1. 1 \in Int /\ Len(acl) \in Int
    BY <1>1
  <2>2. /\ IsFiniteSet(1 .. Len(acl))
        /\ Cardinality(1 .. Len(acl)) = IF 1 > Len(acl) THEN 0 ELSE Len(acl) - 1 + 1
    BY <2>1, FS_Interval
  <2> QED BY <1>1, <2>2
<1>7. \A j \in D : /\ upto(j) \in SUBSET D /\ j \in upto(j) /\ IsFiniteSet(upto(j))
                   /\ Cardinality(upto(j)) \in D /\ PlaceOf(acl, j) = Cardinality(upto(j))
  <2> SUFFICES ASSUME NEW j \in D
               PROVE  /\ upto(j) \in SUBSET D /\ j \in upto(j) /\ IsFiniteSet(upto(j))
                      /\ Cardinality(upto(j)) \in D /\ PlaceOf(acl, j) = Cardinality(upto(j))
    OBVIOUS
  <2>1. upto(j) \in SUBSET D /\ j \in upto(j) /\ PlaceOf(acl, j) = Cardinality(upto(j))
    BY DEF PlaceOf, D
  <2> HIDE DEF upto
  <2>2. IsFiniteSet(upto(j)) /\ Cardinality(upto(j)) <= Len(acl)
    BY <1>6, <2>1, FS_Subset
  <2>3. Cardinality(upto(j)) \in Nat /\ Cardinality(upto(j)) # 0
    BY <2>1, <2>2, FS_CardinalityType, FS_EmptySet
  <2> QED BY <1>1, <2>1, <2>2, <2>3
<1>8. ASSUME NEW j \in D, NEW k \in D, ComesFirst(acl, j, k) PROVE PlaceOf(acl, j) # PlaceOf(acl, k)
  <2>1. upto(j) \subseteq upto(k)
    BY <1>5, <1>8
  <2>2. k \notin upto(j)
    BY <1>4, <1>8
  <2> HIDE DEF upto
  <2>3. upto(j) # upto(k)
    BY <1>7, <2>2
  <2> QED BY <1>7, <2>1, <2>3, FS_Subset
<1>9. \A j, k \in D : PlaceOf(acl, j) = PlaceOf(acl, k) => j = k
  BY <1>3, <1>8
<1>10. PlaceOf(acl, i) \in D /\ i \in D
  BY <1>7 DEF D, acl
<1>11. (CHOOSE j \in D : PlaceOf(acl, j) = PlaceOf(acl, i)) = i
  BY <1>9, <1>10
<1>12. DOMAIN Acl(acl) = D /\ Acl(acl)[PlaceOf(acl, i)] = AclEntry(acl[i])
  BY <1>10, <1>11 DEF Acl, D
<1> QED BY <1>10, <1>12 DEF acl

(* The attributes of a file have the values their types have.              *)
IsElement(e) ==
  /\ DOMAIN e \subseteq AttrTypeSet
  /\ \A t \in DOMAIN e \intersect Numbers : e[t] \in Int
  /\ "FILE_TYPE" \in DOMAIN e => e["FILE_TYPE"] \in FileTypeSet
  /\ "POSIX_PERMISSIONS" \in DOMAIN e =>
       e["POSIX_PERMISSIONS"] \in [class : [Classes -> SUBSET {"read", "write", "execute"}], flags : SUBSET Flags]
  /\ "POSIX_ACL" \in DOMAIN e =>
       \E i \in DOMAIN e["POSIX_ACL"] : e["POSIX_ACL"][i].type \notin {"USER", "GROUP"}

(* What is collected of a file is an element of the types wanted.          *)
LEMMA CollectedIsElement ==
  ASSUME NEW f, IsContent(f), NEW T \in SUBSET AttrTypeSet
  PROVE  IsElement(CollectAttributes(f, T))
<1> DEFINE e == CollectAttributes(f, T)
<1>1. DOMAIN e = Collectable(f, T) /\ DOMAIN e \subseteq AttrTypeSet /\ \A t \in DOMAIN e : e[t] = AttributeOf(f, t)
  BY DEF CollectAttributes, Collectable
<1> HIDE DEF e
<1>2. ASSUME NEW t \in DOMAIN e \intersect Numbers PROVE e[t] \in Int
  <2>1. \A n \in 0 .. Wide - 1 : n \in Int
    OBVIOUS
  <2> QED BY <1>1, <2>1 DEF Numbers, AttributeOf, IsContent
<1>3. "FILE_TYPE" \in DOMAIN e => e["FILE_TYPE"] \in FileTypeSet
  BY <1>1 DEF AttributeOf, IsContent, FileTypeSet
<1>4. "POSIX_PERMISSIONS" \in DOMAIN e =>
       e["POSIX_PERMISSIONS"] \in [class : [Classes -> SUBSET {"read", "write", "execute"}], flags : SUBSET Flags]
  <2> DEFINE mode == f.mode
  <2>1. [c \in Classes |-> {b \in {"read", "write", "execute"} : <<c, b>> \in mode}]
          \in [Classes -> SUBSET {"read", "write", "execute"}]
    OBVIOUS
  <2>2. {g \in Flags : <<"flag", g>> \in mode} \in SUBSET Flags
    OBVIOUS
  <2>3. Permissions(mode) \in [class : [Classes -> SUBSET {"read", "write", "execute"}], flags : SUBSET Flags]
    BY <2>1, <2>2 DEF Permissions
  <2>4. AttributeOf(f, "POSIX_PERMISSIONS") = Permissions(mode)
    BY DEF AttributeOf
  <2> QED BY <1>1, <2>3, <2>4
<1>5. ASSUME "POSIX_ACL" \in DOMAIN e
      PROVE  \E i \in DOMAIN e["POSIX_ACL"] : e["POSIX_ACL"][i].type \notin {"USER", "GROUP"}
  <2>1. f.acl # << >> /\ e["POSIX_ACL"] = Acl(f.acl)
    BY <1>1, <1>5 DEF Collectable, AttributeOf
  <2>2. PICK i \in DOMAIN f.acl : f.acl[i].tag \notin {"USER", "GROUP"}
    BY <2>1 DEF IsContent
  <2>3. PICK n \in DOMAIN Acl(f.acl) : Acl(f.acl)[n] = AclEntry(f.acl[i])
    BY <2>2, AclPlaces
  <2>4. AclEntry(f.acl[i]).type = f.acl[i].tag
    BY DEF AclEntry
  <2> QED BY <2>1, <2>2, <2>3, <2>4
<1> QED BY <1>1, <1>2, <1>3, <1>4, <1>5 DEF IsElement, e

(* A row has the numbers of the types of the element it is made of.        *)
LEMMA Packed ==
  ASSUME NEW e, DOMAIN e \subseteq AttrTypeSet
  PROVE  /\ DOMAIN Pack(e) = {AttributeTypeToFb(t) : t \in DOMAIN e} /\ DOMAIN Pack(e) \subseteq DOMAIN AttrTypes
         /\ {FbToAttributeType(n) : n \in DOMAIN Pack(e)} = DOMAIN e
         /\ \A t \in DOMAIN e : Pack(e)[AttributeTypeToFb(t)] = PackAttribute(t, e[t])
<1>1. \A t \in DOMAIN e : AttributeTypeToFb(t) \in DOMAIN AttrTypes /\ FbToAttributeType(AttributeTypeToFb(t)) = t
  BY AttrTypeFacts
<1> DEFINE N == {AttributeTypeToFb(t) : t \in DOMAIN e}
<1>2. Pack(e) = [n \in N |-> PackAttribute(FbToAttributeType(n), e[FbToAttributeType(n)])]
  BY DEF Pack
<1>3. \A t \in DOMAIN e : AttributeTypeToFb(t) \in N
  OBVIOUS
<1>4. N \subseteq DOMAIN AttrTypes /\ {FbToAttributeType(n) : n \in N} = DOMAIN e
  BY <1>1
<1> HIDE DEF N
<1>5. DOMAIN Pack(e) = N
  BY <1>2
<1>6. \A t \in DOMAIN e : Pack(e)[AttributeTypeToFb(t)] = PackAttribute(t, e[t])
  BY <1>1, <1>2, <1>3
<1> QED BY <1>4, <1>5, <1>6 DEF N

(* Reading the attributes back of a row that an element was packed in.     *)
LEMMA Unpacked ==
  ASSUME NEW e, DOMAIN e \subseteq AttrTypeSet
  PROVE  /\ DOMAIN Unpack(Pack(e)) = DOMAIN e
         /\ \A t \in DOMAIN e :
              Unpack(Pack(e))[t] = CreateAttributeFromTable(t, PackAttribute(t, e[t]))
<1> DEFINE row == Pack(e)
<1>1. {FbToAttributeType(n) : n \in DOMAIN row} = DOMAIN e
  BY Packed
<1>2. Unpack(row) = [t \in {FbToAttributeType(n) : n \in DOMAIN row} |->
                       CreateAttributeFromTable(t, row[AttributeTypeToFb(t)])]
  BY DEF Unpack
<1>3. \A t \in DOMAIN e : row[AttributeTypeToFb(t)] = PackAttribute(t, e[t])
  BY Packed
<1> HIDE DEF row
<1>4. Unpack(row) = [t \in DOMAIN e |-> CreateAttributeFromTable(t, row[AttributeTypeToFb(t)])]
  BY <1>1, <1>2
<1>5. DOMAIN Unpack(row) = DOMAIN e
  BY <1>4
<1>6. \A t \in DOMAIN e : Unpack(row)[t] = CreateAttributeFromTable(t, PackAttribute(t, e[t]))
  BY <1>3, <1>4
<1> QED BY <1>5, <1>6 DEF row

(* What compare_attributes tells apart of a value.                         *)
VisibleOf(t, v) == IF t \in Numbers THEN v % IntValues ELSE v

(* What compare_attributes tells apart of a row, attribute by attribute.   *)
LEMMA VisibleRow ==
  ASSUME NEW a, DOMAIN a \subseteq AttrTypeSet
  PROVE  /\ DOMAIN Visible(Pack(a)) = {AttributeTypeToFb(t) : t \in DOMAIN a}
         /\ \A t \in DOMAIN a : Visible(Pack(a))[AttributeTypeToFb(t)] = VisibleOf(t, PackAttribute(t, a[t]))
<1> DEFINE row == Pack(a)
<1>1. /\ DOMAIN row = {AttributeTypeToFb(t) : t \in DOMAIN a}
      /\ \A t \in DOMAIN a : row[AttributeTypeToFb(t)] = PackAttribute(t, a[t])
  BY Packed
<1>2. \A t \in DOMAIN a : FbToAttributeType(AttributeTypeToFb(t)) = t
  BY AttrTypeFacts
<1> HIDE DEF row
<1>3. \A t \in DOMAIN a : AttributeTypeToFb(t) \in DOMAIN row
  BY <1>1
<1>4. Visible(row) = [n \in DOMAIN row |-> VisibleOf(FbToAttributeType(n), row[n])]
  BY DEF Visible, VisibleOf
<1>5. DOMAIN Visible(row) = DOMAIN row
  BY <1>4
<1>6. \A t \in DOMAIN a : Visible(row)[AttributeTypeToFb(t)] = VisibleOf(t, row[AttributeTypeToFb(t)])
  BY <1>2, <1>3, <1>4
<1> QED BY <1>1, <1>5, <1>6 DEF row

(* Two elements look the same in a row just if each attribute does.        *)
LEMMA LookTheSame ==
  ASSUME NEW a, NEW b, DOMAIN a \subseteq AttrTypeSet, DOMAIN b = DOMAIN a
  PROVE  Visible(Pack(a)) = Visible(Pack(b)) <=>
           \A t \in DOMAIN a : VisibleOf(t, PackAttribute(t, a[t])) = VisibleOf(t, PackAttribute(t, b[t]))
<1> DEFINE N == {AttributeTypeToFb(t) : t \in DOMAIN a}
           va == Visible(Pack(a))
           vb == Visible(Pack(b))
<1>1. /\ DOMAIN va = N /\ DOMAIN vb = N
      /\ \A t \in DOMAIN a : /\ va[AttributeTypeToFb(t)] = VisibleOf(t, PackAttribute(t, a[t]))
                             /\ vb[AttributeTypeToFb(t)] = VisibleOf(t, PackAttribute(t, b[t]))
  BY VisibleRow
<1>2. va = [n \in DOMAIN va |-> va[n]] /\ vb = [n \in DOMAIN vb |-> vb[n]]
  BY DEF Visible
<1>3. \A n \in N : \E t \in DOMAIN a : n = AttributeTypeToFb(t)
  OBVIOUS
<1> HIDE DEF va, vb, N
<1>4. ASSUME va = vb, NEW t \in DOMAIN a PROVE VisibleOf(t, PackAttribute(t, a[t])) = VisibleOf(t, PackAttribute(t, b[t]))
  BY <1>1, <1>4
<1>5. ASSUME \A t \in DOMAIN a : VisibleOf(t, PackAttribute(t, a[t])) = VisibleOf(t, PackAttribute(t, b[t]))
      PROVE  va = vb
  <2>1. \A n \in N : va[n] = vb[n]
    BY <1>1, <1>3, <1>5
  <2> QED BY <1>1, <1>2, <2>1
<1> QED BY <1>4, <1>5 DEF va, vb

(* What is the same as the value of a row looks like it in the next row.   *)
LEMMA SameLooksTheSame ==
  ASSUME NEW e, NEW x, IsElement(e), IsElement(x), NEW t \in DOMAIN e \intersect DOMAIN x, t # "POSIX_ACL",
         Same(t, e[t], CreateAttributeFromTable(t, PackAttribute(t, x[t])))
  PROVE  VisibleOf(t, PackAttribute(t, e[t])) = VisibleOf(t, PackAttribute(t, x[t]))
<1> DEFINE r == PackAttribute(t, x[t])
<1>1. CASE t \in Numbers
  <2>1. t \notin {"FILE_TYPE", "POSIX_PERMISSIONS", "POSIX_ACL"}
    BY <1>1 DEF Numbers
  <2>2. r = x[t] /\ PackAttribute(t, e[t]) = e[t] /\ CreateAttributeFromTable(t, r) = r
    BY <2>1 DEF PackAttribute, CreateAttributeFromTable
  <2>3. e[t] \in Int /\ x[t] \in Int /\ IntValues \in Nat \ {0}
    BY <1>1, AttributesAssumption DEF IsElement
  <2>4. (e[t] - x[t]) % IntValues = 0
    BY <1>1, <2>2 DEF Same, ZeroAsInt
  <2>5. e[t] % IntValues = x[t] % IntValues
    BY <2>3, <2>4, SameInAnInt
  <2> QED BY <1>1, <2>2, <2>5 DEF VisibleOf
<1>2. CASE t = "FILE_TYPE"
  <2>1. t \notin Numbers
    BY <1>2 DEF Numbers
  <2>2. x[t] \in FileTypeSet /\ r = FileTypeToFb(x[t]) /\ CreateAttributeFromTable(t, r) = FbToFileType(r)
    BY <1>2 DEF IsElement, PackAttribute, CreateAttributeFromTable
  <2>3. e[t] = x[t]
    BY <2>1, <2>2, <1>2, FileTypeNumbers DEF Same
  <2> QED BY <2>3
<1>3. CASE t = "POSIX_PERMISSIONS"
  <2>1. t \notin Numbers
    BY <1>3 DEF Numbers
  <2> DEFINE v == x[t]
             k == CreateAttributeFromTable(t, r)
             P == {"read", "write", "execute"}
  <2>2. v \in [class : [Classes -> SUBSET P], flags : SUBSET Flags]
    BY <1>3 DEF IsElement
  <2>3. v.class \in [Classes -> SUBSET P]
    BY <2>2
  <2>4. r = [classes |-> [c \in {d \in Classes : v.class[d] # {}} |-> v.class[c]], flags |-> v.flags]
    BY <1>3 DEF PackAttribute
  <2>5. k = [class |-> [c \in Classes |-> IF c \in DOMAIN r.classes THEN r.classes[c] ELSE {}], flags |-> r.flags]
    BY <1>3 DEF CreateAttributeFromTable
  <2>6. \A c \in Classes : k.class[c] = v.class[c]
    <3> DEFINE g == r.classes
               h == v.class
               S == {d \in Classes : h[d] # {}}
    <3>1. g = [c \in S |-> h[c]]
      BY <2>4
    <3>2. k.class = [c \in Classes |-> IF c \in DOMAIN g THEN g[c] ELSE {}]
      BY <2>5
    <3> HIDE DEF g, h
    <3>3. DOMAIN g = S
      BY <3>1
    <3>4. ASSUME NEW c \in Classes PROVE k.class[c] = h[c]
      <4>1. CASE c \in S
        BY <3>1, <3>2, <3>3, <4>1
      <4>2. CASE c \notin S
        <5>1. h[c] = {}
          BY <4>2
        <5> QED BY <3>2, <3>3, <4>2, <5>1
      <4> QED BY <4>1, <4>2
    <3> QED BY <3>4 DEF h
  <2>7. k.flags = v.flags
    BY <2>4, <2>5
  <2>8. e[t] = k
    BY <2>1, <1>3 DEF Same
  <2>9. PackAttribute(t, k) = [classes |-> [c \in {d \in Classes : k.class[d] # {}} |-> k.class[c]], flags |-> k.flags]
    BY <1>3 DEF PackAttribute
  <2> HIDE DEF k
  <2>10. PackAttribute(t, k) = r
    <3>1. {d \in Classes : k.class[d] # {}} = {d \in Classes : v.class[d] # {}}
      BY <2>6
    <3>2. [c \in {d \in Classes : k.class[d] # {}} |-> k.class[c]] = [c \in {d \in Classes : v.class[d] # {}} |-> v.class[c]]
      BY <2>6, <3>1
    <3> QED BY <2>4, <2>7, <2>9, <3>2
  <2> QED BY <2>8, <2>10 
<1>4. CASE t \notin Numbers \union {"FILE_TYPE", "POSIX_PERMISSIONS"}
  <2>1. r = x[t] /\ CreateAttributeFromTable(t, r) = r
    BY <1>4 DEF PackAttribute, CreateAttributeFromTable
  <2>2. e[t] = x[t]
    BY <1>4, <2>1 DEF Same
  <2> QED BY <2>2
<1> QED BY <1>1, <1>2, <1>3, <1>4

(* The list that was packed can not be read.                               *)
LEMMA ListReadsNothing ==
  ASSUME NEW x, IsElement(x), "POSIX_ACL" \in DOMAIN x
  PROVE  ReadsNothing(Pack(x))
<1> DEFINE n == AttributeTypeToFb("POSIX_ACL")
           v == x["POSIX_ACL"]
<1>1. PICK i \in DOMAIN v : v[i].type \notin {"USER", "GROUP"}
  BY DEF IsElement
<1>2. n \in DOMAIN Pack(x) /\ Pack(x)[n] = PackAttribute("POSIX_ACL", v) /\ FbToAttributeType(n) = "POSIX_ACL"
  <2>1. DOMAIN x \subseteq AttrTypeSet
    BY DEF IsElement
  <2>2. DOMAIN Pack(x) = {AttributeTypeToFb(t) : t \in DOMAIN x}
    BY <2>1, Packed
  <2>3. Pack(x)[n] = PackAttribute("POSIX_ACL", v)
    BY <2>1, Packed
  <2> QED BY <2>1, <2>2, <2>3, AttrTypeFacts
<1>3. PackAttribute("POSIX_ACL", v) = [j \in DOMAIN v |-> PackAclEntry(v[j])]
  BY DEF PackAttribute
<1>4. PackAclEntry(v[i]).table = Undefined
  BY <1>1 DEF PackAclEntry
<1> HIDE DEF n, v
<1>5. i \in DOMAIN Pack(x)[n] /\ Pack(x)[n][i].table = Undefined
  BY <1>2, <1>3, <1>4
<1> QED BY <1>2, <1>5 DEF ReadsNothing

(* After a report of what is different, the reports tell what the row does.*)
LEMMA ToldFollows ==
  ASSUME NEW p, NEW e, NEW x, IsElement(e), IsElement(x), "POSIX_ACL" \notin DOMAIN x,
         DOMAIN told[p] = DOMAIN x, Visible(Pack(told[p])) = Visible(Pack(x)),
         Shared(e, Unpack(Pack(x))) = {}
  PROVE  LET u == ToldOf(p, e, Unpack(Pack(x)))
         IN  DOMAIN u = DOMAIN e /\ Visible(Pack(u)) = Visible(Pack(e))
<1> DEFINE row == Unpack(Pack(x))
           u == ToldOf(p, e, row)
           D == Differences(e, row)
           w == told[p]
<1>1. /\ DOMAIN row = DOMAIN x /\ DOMAIN x \subseteq AttrTypeSet /\ DOMAIN e \subseteq AttrTypeSet
      /\ \A t \in DOMAIN x : row[t] = CreateAttributeFromTable(t, PackAttribute(t, x[t]))
  BY Unpacked DEF IsElement
<1>2. \A t \in DOMAIN x : VisibleOf(t, PackAttribute(t, w[t])) = VisibleOf(t, PackAttribute(t, x[t]))
  BY <1>1, LookTheSame
<1> HIDE DEF row
<1>3. DOMAIN x \subseteq DOMAIN e
  BY <1>1 DEF Shared, row
<1>4. D = {t \in DOMAIN e : t \notin DOMAIN x \/ ~ Same(t, e[t], row[t])}
  BY <1>1 DEF Differences
<1>5. u = [t \in D \union DOMAIN w |-> IF t \in D THEN e[t] ELSE w[t]]
  BY DEF ToldOf
<1> HIDE DEF D, u, w
<1>6. DOMAIN u = DOMAIN e
  BY <1>3, <1>4, <1>5 DEF w
<1>7. ASSUME NEW t \in DOMAIN e
      PROVE  VisibleOf(t, PackAttribute(t, u[t])) = VisibleOf(t, PackAttribute(t, e[t]))
  <2>1. CASE t \in D
    BY <1>5, <2>1
  <2>2. CASE t \notin D
    <3>1. t \in DOMAIN x /\ Same(t, e[t], row[t]) /\ u[t] = w[t] /\ t # "POSIX_ACL"
      BY <1>3, <1>4, <1>5, <2>2 DEF w
    <3>2. VisibleOf(t, PackAttribute(t, e[t])) = VisibleOf(t, PackAttribute(t, x[t]))
      BY <1>1, <3>1, SameLooksTheSame
    <3> QED BY <1>2, <3>1, <3>2
  <2> QED BY <2>1, <2>2
<1>8. Visible(Pack(u)) = Visible(Pack(e))
  BY <1>1, <1>6, <1>7, LookTheSame
<1> QED BY <1>6, <1>8 DEF u, row

-----------------------------------------------------------------------------
(* Names of files                                                          *)

(* A name is a sequence of characters that begins with a separator.        *)
LEMMA NameIsSequence ==
  ASSUME NEW n, IsName(n)
  PROVE  /\ n \in Seq(ToSet(n)) /\ Len(n) \in Nat /\ Len(n) >= 1 /\ DOMAIN n = 1 .. Len(n)
         /\ n[1] = Sep /\ \A i \in 2 .. Len(n) : n[i] = Sep => i < Len(n) /\ n[i - 1] # Sep
<1>1. n \in Seq(ToSet(n)) /\ n # << >> /\ Head(n) = Sep
  BY DEF IsName, IsFileNameAbsolute
<1>2. Len(n) \in Nat /\ DOMAIN n = 1 .. Len(n)
  BY <1>1, LenProperties
<1>3. Len(n) # 0
  BY <1>1, EmptySeq
<1>4. Head(n) = n[1]
  BY <1>1
<1> QED BY <1>1, <1>2, <1>3, <1>4 DEF IsName

(* A prefix of a prefix is one, and a shorter one.                         *)
LEMMA PrefixOfPrefix ==
  ASSUME NEW p, NEW q, NEW r, IsName(p), IsName(q), IsName(r),
         IsPrefix(p, q), IsPrefix(q, r)
  PROVE  IsPrefix(p, r) /\ (q # r => p # r)
<1> DEFINE S == ToSet(p) \union ToSet(q) \union ToSet(r)
<1>1. p \in Seq(ToSet(p)) /\ q \in Seq(ToSet(q)) /\ r \in Seq(ToSet(r))
  BY NameIsSequence
<1>2. p \in Seq(S) /\ q \in Seq(S) /\ r \in Seq(S)
  BY <1>1, SeqMonotonic
<1> HIDE DEF S
<1>3. Len(p) \in Nat /\ Len(q) \in Nat /\ Len(r) \in Nat
  BY <1>2, LenProperties
<1>4. /\ Len(p) <= Len(q) /\ \A i \in 1 .. Len(p) : p[i] = q[i]
      /\ Len(q) <= Len(r) /\ \A i \in 1 .. Len(q) : q[i] = r[i]
  BY <1>2, PrefixIs
<1>5. Len(p) <= Len(r) /\ \A i \in 1 .. Len(p) : p[i] = r[i]
  BY <1>3, <1>4
<1>6. IsPrefix(p, r)
  BY <1>2, <1>5, PrefixIs
<1>7. ASSUME p = r PROVE q = r
  <2>1. Len(q) = Len(r)
    BY <1>3, <1>4, <1>7
  <2> QED BY <1>2, <1>4, <2>1, SeqEqual
<1> QED BY <1>6, <1>7

(* A name ends with its last component: the separator before it ends the   *)
(* directory, but for the root, which is one.                              *)
LEMMA NameParts ==
  ASSUME NEW p, IsName(p), p # <<Sep>>
  PROVE  /\ LastSlash(p) \in 1 .. Len(p) - 1 /\ p[LastSlash(p)] = Sep
         /\ \A i \in 1 .. Len(p) : p[i] = Sep => i <= LastSlash(p)
         /\ DirName(p) = IF LastSlash(p) = 1 THEN <<Sep>> ELSE Upto(p, LastSlash(p) - 1)
         /\ BaseName(p) = SubSeq(p, LastSlash(p) + 1, Len(p))
<1> DEFINE S == ToSet(p)
           m == LastSlash(p)
<1>1. /\ p \in Seq(S) /\ Len(p) \in Nat /\ Len(p) >= 1 /\ DOMAIN p = 1 .. Len(p)
      /\ p[1] = Sep /\ \A i \in 2 .. Len(p) : p[i] = Sep => i < Len(p) /\ p[i - 1] # Sep
  BY NameIsSequence
<1> HIDE DEF S
<1>2. Len(p) >= 2
  <2> SUFFICES ASSUME Len(p) = 1 PROVE FALSE
    BY <1>1
  <2>1. <<Sep>> \in Seq(S) /\ Len(<<Sep>>) = 1 /\ <<Sep>>[1] = Sep
    BY <1>1, ElementOfSeq
  <2>2. p = <<Sep>>
    BY <1>1, <2>1, SeqEqual
  <2> QED BY <2>2
<1>3. p # << >> /\ p[Len(p)] # Sep
  BY <1>1, <1>2
<1>4. LastNot(p) = Len(p)
  <2> DEFINE T == {k \in 0 .. (Len(p) - 1) : p[Len(p) - k] # Sep}
  <2>1. T \in SUBSET Nat /\ 0 \in T /\ \A y \in T : 0 <= y
    BY <1>1, <1>2, <1>3
  <2>2. Min(T) = 0
    <3> HIDE DEF T
    <3> QED BY <2>1, MinIsLeast
  <2>3. \E i \in DOMAIN p : p[i] # Sep
    BY <1>1, <1>2, <1>3
  <2> QED BY <1>1, <2>2, <2>3 DEF LastNot
<1>5. /\ m \in 1 .. Len(p) - 1 /\ p[m] = Sep
      /\ \A i \in 1 .. Len(p) : p[i] = Sep => i <= m
  <2> DEFINE T == {0} \union {i \in 1 .. Len(p) : p[i] = Sep}
  <2>1. T \in SUBSET Nat /\ 1 \in T /\ \A y \in T : y <= Len(p)
    BY <1>1
  <2>2. m = Max(T)
    BY <1>4 DEF LastSlash
  <2>3. Max(T) \in T /\ \A y \in T : y <= Max(T)
    <3> HIDE DEF T
    <3> QED BY <2>1, <1>1, MaxIsGreatest
  <2> HIDE DEF m
  <2>4. m \in T /\ m >= 1 /\ \A y \in T : y <= m
    BY <2>1, <2>2, <2>3
  <2> QED BY <1>1, <1>3, <2>4
<1> DEFINE dir == Upto(p, m - 1)
<1>6. dir \in Seq(S) /\ Len(dir) = m - 1 /\ DOMAIN dir = 1 .. m - 1 /\ \A i \in 1 .. m - 1 : dir[i] = p[i]
  <2> HIDE DEF m
  <2>1. 1 \in 1 .. Len(p) + 1 /\ m - 1 \in 1 - 1 .. Len(p) /\ (m - 1) + 1 - 1 = m - 1
        /\ \A i \in 1 .. m - 1 : 1 + i - 1 = i
    BY <1>1, <1>5
  <2>2. dir \in Seq(S) /\ Len(dir) = m - 1 /\ \A i \in 1 .. m - 1 : dir[i] = p[i]
    BY <1>1, <2>1, PartOf DEF Upto
  <2> HIDE DEF dir
  <2> QED BY <2>2, LenProperties
<1>7. BaseName(p) = SubSeq(p, m + 1, Len(p))
  <2>1. LastSlash(p) # 0 /\ LastNot(p) # 0
    BY <1>1, <1>4, <1>5
  <2> QED BY <1>3, <1>4, <2>1 DEF BaseName
<1>8. CASE m = 1
  <2>1. LastNot(dir) = 0
    <3> HIDE DEF dir, m
    <3>1. Len(dir) = 0 /\ DOMAIN dir = {}
      BY <1>6, <1>8
    <3> QED BY <3>1 DEF LastNot
  <2>2. DirName(p) = <<Sep>>
    BY <1>1, <1>3, <1>4, <1>5, <2>1, <1>8 DEF DirName
  <2> QED BY <1>5, <1>7, <1>8, <2>2
<1>9. CASE m # 1
  <2>1. LastNot(dir) = m - 1
    <3> HIDE DEF dir, m
    <3> DEFINE T == {k \in 0 .. (Len(dir) - 1) : dir[Len(dir) - k] # Sep}
    <3>1. m - 1 \in 1 .. Len(p) /\ dir[m - 1] # Sep
      BY <1>1, <1>5, <1>6, <1>9
    <3>2. T \in SUBSET Nat /\ 0 \in T /\ \A y \in T : 0 <= y
      BY <1>6, <3>1
    <3>3. Min(T) = 0
      <4> HIDE DEF T
      <4> QED BY <3>2, MinIsLeast
    <3>4. \E i \in DOMAIN dir : dir[i] # Sep
      BY <1>6, <3>1
    <3> QED BY <1>5, <1>6, <3>3, <3>4 DEF LastNot
  <2>2. DirName(p) = Upto(p, m - 1)
    BY <1>1, <1>3, <1>4, <1>5, <2>1, <1>9 DEF DirName
  <2> QED BY <1>5, <1>7, <1>9, <2>2
<1> QED BY <1>8, <1>9

(* A name is longer than its directory, which is how it begins.            *)
LEMMA DirOfName ==
  ASSUME NEW p, IsName(p), p # <<Sep>>
  PROVE  /\ DirName(p) # p /\ IsPrefix(DirName(p), p) /\ EntryName(DirName(p), BaseName(p)) = p
         /\ Len(DirName(p)) = (IF LastSlash(p) = 1 THEN 1 ELSE LastSlash(p) - 1)
         /\ DirName(p) \in Seq(ToSet(p))
<1> DEFINE S == ToSet(p)
           m == LastSlash(p)
           d == DirName(p)
           b == BaseName(p)
<1>1. /\ p \in Seq(S) /\ Len(p) \in Nat /\ Len(p) >= 1 /\ p[1] = Sep
      /\ \A i \in 2 .. Len(p) : p[i] = Sep => i < Len(p) /\ p[i - 1] # Sep
  BY NameIsSequence
<1>2. /\ m \in 1 .. Len(p) - 1 /\ p[m] = Sep
      /\ d = IF m = 1 THEN <<Sep>> ELSE Upto(p, m - 1)
      /\ b = SubSeq(p, m + 1, Len(p))
  BY NameParts
<1> HIDE DEF S, m, d, b
<1> DEFINE u == SubSeq(p, 1, m)
<1>3. /\ u \in Seq(S) /\ Len(u) = m /\ \A i \in 1 .. m : u[i] = p[i]
      /\ b \in Seq(S) /\ u \o b = p
  <2>1. 1 \in 1 .. Len(p) + 1 /\ m \in 1 - 1 .. Len(p) /\ m + 1 - 1 = m /\ Len(p) \in m .. Len(p)
        /\ \A i \in 1 .. m : 1 + i - 1 = i
    BY <1>1, <1>2
  <2>2. m + 1 \in 1 .. Len(p) + 1 /\ Len(p) \in (m + 1) - 1 .. Len(p)
    <3>1. Len(p) \in Nat /\ m \in 1 .. Len(p) - 1
      BY <1>1, <1>2
    <3> QED BY <3>1
  <2>3. u \in Seq(S) /\ Len(u) = m /\ \A i \in 1 .. m : u[i] = p[i]
    BY <1>1, <2>1, PartOf
  <2>4. b \in Seq(S)
    BY <1>1, <1>2, <2>2, PartOf
  <2>5. u \o b = SubSeq(p, 1, Len(p))
    BY <1>1, <1>2, <2>1, ConcatAdjacentSubSeq
  <2>6. SubSeq(p, 1, Len(p)) = p
    BY <1>1, SubSeqFull
  <2> QED BY <2>3, <2>4, <2>5, <2>6
<1>4. CASE m = 1
  <2>1. Sep \in S /\ <<Sep>> \in Seq(S) /\ Len(<<Sep>>) = 1 /\ <<Sep>>[1] = Sep
    BY <1>1, ElementOfSeq
  <2>2. d = u
    <3> HIDE DEF u
    <3> QED BY <1>1, <1>2, <1>3, <1>4, <2>1, SeqEqual
  <2>3. Last(d) = Sep /\ Len(d) = 1
    BY <1>2, <1>4 DEF Last
  <2>4. EntryName(d, b) = p
    BY <1>3, <2>2, <2>3 DEF EntryName
  <2>5. Len(d) = m /\ d # p /\ IsPrefix(d, p)
    <3> HIDE DEF u
    <3>1. Len(d) <= Len(p) /\ (\A i \in 1 .. Len(d) : d[i] = p[i]) /\ d \in Seq(S)
      BY <1>1, <1>2, <1>3, <2>2
    <3> QED BY <1>1, <1>2, <1>3, <1>4, <2>2, <3>1, PrefixIs
  <2> QED BY <1>3, <1>4, <2>2, <2>3, <2>4, <2>5 DEF d, m, b, S
<1>5. CASE m # 1
  <2>1. /\ d \in Seq(S) /\ Len(d) = m - 1 /\ \A i \in 1 .. m - 1 : d[i] = p[i]
    <3>1. 1 \in 1 .. Len(p) + 1 /\ m - 1 \in 1 - 1 .. Len(p) /\ (m - 1) + 1 - 1 = m - 1
          /\ \A i \in 1 .. m - 1 : 1 + i - 1 = i
      BY <1>1, <1>2
    <3>2. d = SubSeq(p, 1, m - 1)
      BY <1>2, <1>5 DEF Upto
    <3> QED BY <1>1, <3>1, <3>2, PartOf
  <2>2. Len(d) >= 1 /\ Last(d) = p[m - 1] /\ p[m - 1] # Sep
    <3>1. m - 1 \in 1 .. m - 1 /\ m \in 2 .. Len(p)
      BY <1>1, <1>2, <1>5
    <3> QED BY <1>1, <1>2, <2>1, <3>1 DEF Last
  <2>3. Append(d, Sep) = u
    <3>1. Sep \in S
      BY <1>1, ElementOfSeq
    <3> DEFINE a == Append(d, Sep)
    <3>2. a \in Seq(S) /\ Len(a) = m /\ a[m] = Sep /\ \A i \in 1 .. m - 1 : a[i] = p[i]
      <4>1. Len(d) + 1 = m
        BY <1>2, <2>1
      <4> QED BY <2>1, <3>1, <4>1, AppendProperties
    <3> HIDE DEF a, u
    <3>3. ASSUME NEW i \in 1 .. m PROVE a[i] = u[i]
      <4>1. m \in Nat /\ p[m] = Sep /\ u[i] = p[i]
        BY <1>2, <1>3
      <4>2. i = m \/ i \in 1 .. m - 1
        BY <4>1
      <4> QED BY <3>2, <4>1, <4>2
    <3> QED BY <1>3, <3>2, <3>3, SeqEqual DEF a
  <2>4. EntryName(d, b) = p
    BY <1>3, <2>2, <2>3 DEF EntryName
  <2>5. d # p /\ IsPrefix(d, p)
    <3> HIDE DEF u
    <3>1. Len(d) <= Len(p) /\ (\A i \in 1 .. Len(d) : d[i] = p[i]) /\ Len(d) # Len(p)
      BY <1>1, <1>2, <2>1
    <3> QED BY <1>1, <2>1, <3>1, PrefixIs
  <2> QED BY <1>5, <2>1, <2>4, <2>5 DEF d, m, b, S
<1> QED BY <1>4, <1>5

(* What a name is below is its directory, or what its directory is below.  *)
LEMMA AboveDirectory ==
  ASSUME NEW p, NEW q, IsName(p), IsName(q), IsBelow(p, q)
  PROVE  p # <<Sep>> /\ (q = DirName(p) \/ IsBelow(DirName(p), q))
<1> DEFINE S == ToSet(p) \union ToSet(q)
           m == LastSlash(p)
           d == DirName(p)
<1>1. /\ Len(p) \in Nat /\ Len(p) >= 1 /\ Len(q) \in Nat /\ Len(q) >= 1 /\ p[1] = Sep /\ q[1] = Sep
      /\ p \in Seq(S) /\ q \in Seq(S)
  <2>1. p \in Seq(ToSet(p)) /\ q \in Seq(ToSet(q))
    BY NameIsSequence
  <2>2. p \in Seq(S) /\ q \in Seq(S)
    BY <2>1, SeqMonotonic
  <2> QED BY <2>2, NameIsSequence
<1> HIDE DEF S
<1>2. Len(q) <= Len(p) /\ \A i \in 1 .. Len(q) : q[i] = p[i]
  BY <1>1, PrefixIs DEF IsBelow
<1>3. Len(q) < Len(p)
  <2> SUFFICES ASSUME Len(q) = Len(p) PROVE FALSE
    BY <1>1, <1>2
  <2>1. q = p
    BY <1>1, <1>2, SeqEqual
  <2> QED BY <2>1 DEF IsBelow
<1>4. p # <<Sep>>
  <2> SUFFICES ASSUME p = <<Sep>> PROVE FALSE
    OBVIOUS
  <2>1. Len(p) = 1
    OBVIOUS
  <2> QED BY <1>1, <1>3, <2>1
<1>5. /\ m \in 1 .. Len(p) - 1 /\ p[m] = Sep
      /\ \A i \in 1 .. Len(p) : p[i] = Sep => i <= m
  BY <1>4, NameParts
<1>6. IsPrefix(d, p) /\ d \in Seq(ToSet(p)) /\ Len(d) = IF m = 1 THEN 1 ELSE m - 1
  BY <1>4, DirOfName
<1>7. /\ d \in Seq(S) /\ d = SubSeq(p, 1, Len(d)) /\ Len(d) \in 1 .. Len(p)
      /\ \A i \in 1 .. Len(d) : d[i] = p[i]
  <2>1. d = SubSeq(p, 1, Len(d)) /\ Len(d) <= Len(p)
    BY <1>6, SubSeqFull DEF IsPrefix
  <2> HIDE DEF d, m
  <2>2. 1 \in 1 .. Len(p) + 1 /\ Len(d) \in 1 - 1 .. Len(p) /\ Len(d) + 1 - 1 = Len(d) /\ Len(d) \in 1 .. Len(p)
        /\ \A i \in 1 .. Len(d) : 1 + i - 1 = i
    BY <1>1, <1>5, <1>6, <2>1
  <2> DEFINE n == Len(d)
  <2> HIDE DEF n
  <2>3. 1 \in 1 .. Len(p) + 1 /\ n \in 1 - 1 .. Len(p) /\ n + 1 - 1 = n /\ \A i \in 1 .. n : 1 + i - 1 = i
    BY <2>2 DEF n
  <2>4. SubSeq(p, 1, n) \in Seq(S) /\ \A i \in 1 .. n : SubSeq(p, 1, n)[i] = p[i]
    BY <1>1, <2>3, PartOf
  <2> QED BY <2>1, <2>2, <2>4 DEF n
<1> HIDE DEF d, m
<1>8. q = <<Sep>> \/ Len(q) + 1 <= m
  <2> SUFFICES ASSUME q # <<Sep>> PROVE Len(q) + 1 <= m
    OBVIOUS
  <2>1. p[Len(q) + 1] = Sep /\ Len(q) + 1 \in 1 .. Len(p)
    BY <1>1, <1>3 DEF IsBelow
  <2> QED BY <1>5, <2>1
<1>9. Len(q) <= Len(d)
  <2>1. CASE q = <<Sep>>
    <3>1. Len(q) = 1
      BY <2>1
    <3> QED BY <1>7, <3>1
  <2>2. CASE q # <<Sep>>
    BY <1>1, <1>5, <1>6, <1>8, <2>2
  <2> QED BY <2>1, <2>2
<1>10. IsPrefix(q, d)
  <2>1. \A i \in 1 .. Len(q) : q[i] = d[i]
    BY <1>1, <1>2, <1>7, <1>9
  <2> QED BY <1>1, <1>7, <1>9, <2>1, PrefixIs
<1>11. ASSUME q # d, q # <<Sep>> PROVE d[Len(q) + 1] = Sep
  <2>1. Len(q) # Len(d)
    <3> SUFFICES ASSUME Len(q) = Len(d) PROVE FALSE
      OBVIOUS
    <3>1. \A i \in 1 .. Len(q) : q[i] = d[i]
      BY <1>1, <1>2, <1>7, <1>9
    <3> QED BY <1>1, <1>7, <1>11, <3>1, SeqEqual
  <2>2. Len(q) + 1 \in 1 .. Len(d)
    BY <1>1, <1>7, <1>9, <2>1
  <2>3. d[Len(q) + 1] = p[Len(q) + 1]
    BY <1>7, <2>2
  <2> QED BY <1>11, <2>3 DEF IsBelow
<1>12. q = d \/ IsBelow(d, q)
  BY <1>10, <1>11 DEF IsBelow
<1> QED BY <1>4, <1>12 DEF d

(* What is below what is below a name is below it.                         *)
LEMMA BelowBelow ==
  ASSUME NEW p, NEW q, NEW r, IsName(p), IsName(q), IsName(r), IsBelow(r, q), IsBelow(q, p)
  PROVE  IsBelow(r, p)
<1>1. IsPrefix(p, r) /\ p # r
  BY PrefixOfPrefix DEF IsBelow
<1>2. ASSUME p # <<Sep>> PROVE r[Len(p) + 1] = Sep
  <2> DEFINE S == ToSet(p) \union ToSet(q) \union ToSet(r)
  <2>1. p \in Seq(ToSet(p)) /\ q \in Seq(ToSet(q)) /\ r \in Seq(ToSet(r))
    BY NameIsSequence
  <2>2. p \in Seq(S) /\ q \in Seq(S) /\ r \in Seq(S)
    BY <2>1, SeqMonotonic
  <2> HIDE DEF S
  <2>3. Len(p) \in Nat /\ Len(q) \in Nat /\ Len(r) \in Nat
    BY <2>2, LenProperties
  <2>4. Len(p) <= Len(q) /\ (\A i \in 1 .. Len(p) : p[i] = q[i]) /\ \A i \in 1 .. Len(q) : q[i] = r[i]
    BY <2>2, PrefixIs DEF IsBelow
  <2>5. Len(p) # Len(q)
    <3> SUFFICES ASSUME Len(p) = Len(q) PROVE FALSE
      OBVIOUS
    <3>1. p = q
      BY <2>2, <2>4, SeqEqual
    <3> QED BY <3>1 DEF IsBelow
  <2>6. Len(p) + 1 \in 1 .. Len(q)
    BY <2>3, <2>4, <2>5
  <2> QED BY <1>2, <2>4, <2>6 DEF IsBelow
<1> QED BY <1>1, <1>2 DEF IsBelow

(* The directory of the root is the root.                                  *)
LEMMA DirOfRoot == DirName(<<Sep>>) = <<Sep>>
<1> DEFINE p == <<Sep>>
<1>1. Len(p) = 1 /\ DOMAIN p = {1} /\ p[1] = Sep /\ p # << >>
  OBVIOUS
<1> HIDE DEF p
<1>2. LastNot(p) = 0
  BY <1>1 DEF LastNot
<1> QED BY <1>1, <1>2 DEF DirName, p

-----------------------------------------------------------------------------
(* The scenarios                                                           *)

(* What is left of the includes is a sequence.                             *)
LEMMA AbsoluteIsSequence ==
  ASSUME NEW s, NEW S, s \in Seq(S)
  PROVE  Absolute(s) \in Seq(ToSet(Absolute(s)))
<1> DEFINE m == [k \in DOMAIN s |-> Cleansed(s[k])]
           T == {Cleansed(s[k]) : k \in DOMAIN s}
           keep == {k \in DOMAIN s : m[k] # << >>}
<1>1. Absolute(s) = Gathered(m, keep)
  BY DEF Absolute
<1>2. DOMAIN s = 1 .. Len(s) /\ Len(s) \in Nat
  BY LenProperties
<1>3. m \in [1 .. Len(s) -> T]
  BY <1>2
<1>4. Len(m) = Len(s) /\ \A k \in 1 .. Len(s) : m[k] \in T
  BY <1>2, <1>3, FunctionIsSeq
<1> HIDE DEF m, T, keep
<1>5. Gathered(m, keep) \in Seq(T)
  BY <1>2, <1>4, GatheredIsSeq
<1>6. Gathered(m, keep) \in Seq(Range(Gathered(m, keep)))
  BY <1>5, SeqOfRange
<1> QED BY <1>1, <1>6 DEF ToSet, Range

(* A 64-bit number has some values.                                        *)
LEMMA WideIsNat == Wide \in Nat \ {0}
<1>1. \A m, n \in Nat \ {0} : m * n \in Nat \ {0}
  OBVIOUS
<1> QED BY <1>1, AttributesAssumption DEF Wide

(* The names are those of files, and jobs are about names and patterns.    *)
LEMMA InScenario ==
  ASSUME sc \in DOMAIN Scenarios
  PROVE  /\ \A p \in PossibleNames : IsName(p)
         /\ \A p \in PossibleNames : \A n \in DOMAIN p : IsBelow(p, Upto(p, n)) => Upto(p, n) \in PossibleNames
         /\ PossibleNames \subseteq Patterns /\ Includes \in Seq(Patterns)
         /\ \A p \in PossibleNames, i \in Patterns \union Excludes : Matches(p, i) = Designates(i, p)
         /\ \A T \in InstalledTypes : T \subseteq AttrTypeSet
<1>1. /\ Scenarios[sc].incl \in Seq(ToSet(Scenarios[sc].incl))
      /\ \A p \in NamesIn(sc) :
           IsName(p) /\ \A n \in DOMAIN p : IsBelow(p, Upto(p, n)) => Upto(p, n) \in NamesIn(sc)
      /\ \A p \in NamesIn(sc), i \in PatternsIn(sc) \union Requests[sc].excl : Matches(p, i) = Designates(i, p)
  BY ScanAssumption
<1>2. Includes = Absolute(Scenarios[sc].incl)
  BY DEF Includes, Requests
<1>3. Includes \in Seq(ToSet(Includes))
  BY <1>1, <1>2, AbsoluteIsSequence
<1>4. ToSet(Includes) \subseteq Patterns /\ PossibleNames \subseteq Patterns
  BY DEF Patterns, PatternsIn, Includes, PossibleNames
<1>5. Includes \in Seq(Patterns)
  BY <1>3, <1>4, SeqMonotonic
<1>6. ASSUME NEW r PROVE RequestedTypes(r) \subseteq AttrTypeSet
  BY AttrTypeFacts DEF RequestedTypes, Known
<1> QED BY <1>1, <1>4, <1>5, <1>6 DEF PossibleNames, Patterns, Excludes, InstalledTypes

(* A file is like what it was or was made.                                 *)
LEMMA FileIsContent ==
  ASSUME sc \in DOMAIN Scenarios, NEW p \in PossibleNames, NEW f \in FilesAt(p)
  PROVE  /\ IsContent(f)
         /\ \E c \in PossibleContents(p) \ {Nothing} :
              /\ f.ftype = c.ftype /\ f.readable = c.readable
              /\ \A T : Collectable(f, T) = Collectable(c, T)
         /\ \A T : AfterCollecting(f, T) \in FilesAt(p) /\ AfterCollecting(f, T).ftype = f.ftype
<1>1. PICK c \in PossibleContents(p) \ {Nothing} : f = c \/ \E x \in 0 .. Wide - 1 : f = [c EXCEPT !.ctime = x]
  BY DEF FilesAt
<1>2. IsContent(c)
  BY <1>1, ScanAssumption DEF PossibleContents, PossibleNames
<1>3. DOMAIN c = {"ftype", "size", "uid", "gid", "atime", "ctime", "mtime", "mode", "hash",
                  "readable", "acl", "dangling"} /\ c.ctime \in 0 .. Wide - 1
  BY <1>2 DEF IsContent
<1> DEFINE D == DOMAIN c
<1>4. DOMAIN f = D /\ f.ctime \in 0 .. Wide - 1 /\ \A a \in D \ {"ctime"} : f[a] = c[a]
  BY <1>1, <1>3
<1>5. {"ftype", "size", "atime", "mtime", "readable", "acl"} \subseteq D \ {"ctime"}
  BY <1>3
<1>6. f.ftype = c.ftype /\ f.readable = c.readable /\ f.acl = c.acl /\ f.size = c.size /\ f.atime = c.atime /\ f.mtime = c.mtime
  BY <1>4, <1>5
<1>7. IsContent(f)
  BY <1>2, <1>4, <1>6 DEF IsContent
<1>8. ASSUME NEW T PROVE Collectable(f, T) = Collectable(c, T)
  BY <1>6 DEF Collectable
<1>9. ASSUME NEW T PROVE AfterCollecting(f, T) \in FilesAt(p) /\ AfterCollecting(f, T).ftype = f.ftype
  <2> DEFINE y == (f.ctime + 1) % Wide
             g == [f EXCEPT !.ctime = y]
  <2>1. y \in 0 .. Wide - 1
    BY <1>4, WideIsNat
  <2>2. g = [c EXCEPT !.ctime = y]
    <3> HIDE DEF y
    <3> QED BY <1>1, <1>3
  <2>3. g \in FilesAt(p) /\ g.ftype = f.ftype
    <3> HIDE DEF y
    <3> QED BY <1>1, <1>3, <1>4, <1>5, <2>1, <2>2 DEF FilesAt
  <2> QED BY <2>3 DEF AfterCollecting
<1> QED BY <1>1, <1>6, <1>7, <1>8, <1>9

-----------------------------------------------------------------------------
(* The steps of the scans                                                  *)

(* The scenario is chosen at first, and stays.                             *)
LEMMA SameScenario ==
  ASSUME sc' = sc
  PROVE  /\ PossibleNames' = PossibleNames /\ Patterns' = Patterns /\ Sc' = Sc
         /\ InstalledTypes' = InstalledTypes
         /\ \A p : FilesAt(p)' = FilesAt(p) /\ (PassedOver(p)' <=> PassedOver(p))
         /\ \A p, row : RowMade(p, row)' <=> RowMade(p, row)
         /\ Jobs' = Jobs /\ (DirectoryMayGo' <=> DirectoryMayGo)
<1>1. /\ Sc' = Sc /\ PossibleNames' = PossibleNames /\ Includes' = Includes /\ Excludes' = Excludes
      /\ \A p : PossibleContents(p)' = PossibleContents(p)
  BY DEF Sc, PossibleNames, Includes, Excludes, PossibleContents
<1>2. InstalledTypes' = InstalledTypes /\ Patterns' = Patterns
  BY <1>1 DEF InstalledTypes, Patterns
<1>3. \A p : FilesAt(p)' = FilesAt(p)
  BY <1>1 DEF FilesAt
<1>4. \A p, row : RowMade(p, row)' <=> RowMade(p, row)
  BY <1>2, <1>3 DEF RowMade
<1>5. \A p : PassedOver(p)' <=> PassedOver(p)
  BY <1>1, <1>2 DEF PassedOver, Crawled
<1>6. DirectoryMayGo' <=> DirectoryMayGo
  BY <1>1 DEF DirectoryMayGo
<1> QED BY <1>1, <1>2, <1>3, <1>4, <1>5, <1>6 DEF Jobs

(* A crawl stays below its top directory while its job is the same.        *)
LEMMA SameCrawl ==
  ASSUME sc' = sc, job' = job
  PROVE  /\ CrawlTop' = CrawlTop /\ Frames' = Frames
         /\ \A p : (InTop(p)' <=> InTop(p)) /\ (AtTop(p)' <=> AtTop(p))
<1>1. CrawlTop' = CrawlTop /\ PossibleNames' = PossibleNames
  BY SameScenario DEF CrawlTop
<1>2. \A p : (InTop(p)' <=> InTop(p)) /\ (AtTop(p)' <=> AtTop(p))
  BY <1>1 DEF InTop, AtTop
<1> QED BY <1>1, <1>2 DEF Frames

(* What leaves the files alone keeps them as they should be.               *)
LEMMA SameFiles ==
  ASSUME TreeTyped, TreeIsWhole, UNCHANGED files
  PROVE  TreeTyped' /\ TreeIsWhole' /\ \A p : IsDirectory(p)' <=> IsDirectory(p)
<1>1. sc' = sc /\ tree' = tree /\ noted' = noted
  BY DEF files
<1>2. \A p : IsDirectory(p)' <=> IsDirectory(p)
  BY <1>1 DEF IsDirectory
<1> QED BY <1>1, <1>2, SameScenario DEF TreeTyped, TreeIsWhole

(* And so for the rows and what was told of them.                          *)
LEMMA SameRows ==
  ASSUME RowsMade, undefined = "no", UNCHANGED <<sc, rows, told>>
  PROVE  RowsMade'
BY SameScenario DEF RowsMade

(* As long as nothing undefined happens nothing is said about it.          *)
LEMMA StillDefined ==
  ASSUME undefined' = "no"
  PROVE  undefined' \in {"no", "element", "iterator", "node", "acl", "types", "escape"} /\ UndefinedOnlyIf'
BY DEF UndefinedOnlyIf

-----------------------------------------------------------------------------
(* What becomes of the rows                                                *)

(* A row, the element it was made of, and what the reports have told.      *)
LEMMA MadeOf ==
  ASSUME sc \in DOMAIN Scenarios, NEW p \in PossibleNames, NEW f \in FilesAt(p), NEW T \in InstalledTypes
  PROVE  LET e == CollectAttributes(f, T)
         IN  /\ IsElement(e) /\ DOMAIN e = Collectable(f, T) /\ DOMAIN e \subseteq AttrTypeSet \intersect T
             /\ RowMade(p, Pack(e)) /\ ToldIs(e, Pack(e))
             /\ ReadsNothing(Pack(e)) <=> "POSIX_ACL" \in DOMAIN e
<1> DEFINE e == CollectAttributes(f, T)
<1>1. IsContent(f) /\ T \in SUBSET AttrTypeSet
  BY FileIsContent, InScenario
<1>2. IsElement(e)
  BY <1>1, CollectedIsElement
<1>3. DOMAIN e = Collectable(f, T) /\ DOMAIN e \subseteq AttrTypeSet \intersect T
  BY <1>1 DEF CollectAttributes, Collectable
<1>4. RowMade(p, Pack(e))
  BY DEF RowMade
<1> HIDE DEF e
<1>5. DOMAIN e = {FbToAttributeType(n) : n \in DOMAIN Pack(e)}
  BY <1>3, Packed
<1>6. ASSUME ReadsNothing(Pack(e)) PROVE "POSIX_ACL" \in DOMAIN e
  BY <1>5, <1>6 DEF ReadsNothing
<1> QED BY <1>2, <1>3, <1>4, <1>5, <1>6, ListReadsNothing DEF ToldIs, e

(* process_element keeps a row for what it was given of a file, and tells  *)
(* what differs; or it finds something that leaves the rest undefined.     *)
LEMMA ProcessKeepsRows ==
  ASSUME sc \in DOMAIN Scenarios, RowsMade, undefined = "no", sc' = sc, NEW p, NEW e, Process(p, e),
         e = Nothing \/ (p \in PossibleNames /\ \E f \in FilesAt(p), T \in InstalledTypes : e = CollectAttributes(f, T))
  PROVE  /\ RowsMade' /\ UndefinedOnlyIf'
         /\ undefined' \in {"no", "element", "iterator", "node", "acl", "types", "escape"}
<1> DEFINE Good(q) == RowMade(q, rows'[q]) /\ (undefined' = "no" => ToldIs(told'[q], rows'[q]))
           Causes == {"no", "element", "iterator", "node", "acl", "types", "escape"}
<1>1. /\ DOMAIN told = DOMAIN rows /\ DOMAIN rows \subseteq PossibleNames
      /\ \A q \in DOMAIN rows : RowMade(q, rows[q]) /\ ToldIs(told[q], rows[q])
  BY DEF RowsMade
<1>2. ASSUME DOMAIN told' = DOMAIN rows', DOMAIN rows' \subseteq PossibleNames, \A q \in DOMAIN rows' : Good(q)
      PROVE  RowsMade'
  BY <1>2, SameScenario DEF RowsMade
<1>3. ASSUME UNCHANGED <<rows, told>> PROVE RowsMade'
  BY <1>3, SameRows
<1>4. ASSUME p \in DOMAIN rows, ReadsNothing(rows[p]), undefined' = "acl"
      PROVE  UndefinedOnlyIf'
  <2>1. PICK f \in FilesAt(p), T \in InstalledTypes : rows[p] = Pack(CollectAttributes(f, T))
    BY <1>1, <1>4 DEF RowMade
  <2>2. "POSIX_ACL" \in T
    BY <1>1, <1>4, <2>1, MadeOf
  <2> QED BY <1>4, <2>2, SameScenario DEF UndefinedOnlyIf
<1>5. CASE ProcessNew(p, e)
  <2>1. /\ p \notin DOMAIN rows /\ e # Nothing /\ undefined' = "no"
        /\ rows' = With(rows, p, Pack(e)) /\ told' = With(told, p, e)
    BY <1>5 DEF ProcessNew, Tells
  <2>2. RowMade(p, Pack(e)) /\ ToldIs(e, Pack(e)) /\ p \in PossibleNames
    BY <2>1, MadeOf
  <2>a. DOMAIN rows' = DOMAIN rows \union {p} /\ rows'[p] = Pack(e)
        /\ \A q \in DOMAIN rows \ {p} : rows'[q] = rows[q]
    BY <2>1 DEF With
  <2>b. DOMAIN told' = DOMAIN told \union {p} /\ told'[p] = e
        /\ \A q \in DOMAIN told \ {p} : told'[q] = told[q]
    BY <2>1 DEF With
  <2>3. DOMAIN told' = DOMAIN rows' /\ DOMAIN rows' = DOMAIN rows \union {p}
    BY <1>1, <2>a, <2>b
  <2>4. ASSUME NEW q \in DOMAIN rows' PROVE Good(q)
    <3>1. CASE q = p
      BY <2>2, <2>a, <2>b, <3>1
    <3>2. CASE q # p
      <4>1. q \in DOMAIN rows \ {p} /\ q \in DOMAIN told \ {p}
        BY <1>1, <2>3, <3>2
      <4>2. rows'[q] = rows[q] /\ told'[q] = told[q]
        BY <2>a, <2>b, <4>1
      <4> QED BY <1>1, <4>1, <4>2
    <3> QED BY <3>1, <3>2
  <2> HIDE DEF Good
  <2>5. RowsMade'
    BY <1>1, <1>2, <2>2, <2>3, <2>4
  <2> QED BY <2>1, <2>5, StillDefined
<1>6. CASE ProcessGone(p)
  <2>1. CASE ReadsNothing(rows[p])
    <3>1. p \in DOMAIN rows /\ undefined' = "acl" /\ UNCHANGED <<rows, told>>
      BY <1>6, <2>1 DEF ProcessGone
    <3> QED BY <1>3, <1>4, <2>1, <3>1
  <2>2. CASE ~ ReadsNothing(rows[p])
    <3>1. undefined' = "no" /\ rows' = Without(rows, {p}) /\ told' = Without(told, {p})
      BY <1>6, <2>2 DEF ProcessGone, Tells
    <3>a. DOMAIN rows' = DOMAIN rows \ {p} /\ \A q \in DOMAIN rows' : rows'[q] = rows[q]
      BY <3>1 DEF Without, Restrict
    <3>b. DOMAIN told' = DOMAIN told \ {p} /\ \A q \in DOMAIN told' : told'[q] = told[q]
      BY <3>1 DEF Without, Restrict
    <3>2. DOMAIN told' = DOMAIN rows' /\ DOMAIN rows' = DOMAIN rows \ {p}
      BY <1>1, <3>a, <3>b
    <3>3. ASSUME NEW q \in DOMAIN rows' PROVE Good(q)
      <4>1. q \in DOMAIN rows \ {p} /\ q \in DOMAIN told \ {p}
        BY <1>1, <3>2
      <4>2. rows'[q] = rows[q] /\ told'[q] = told[q]
        BY <3>2, <3>a, <3>b, <4>1
      <4> QED BY <1>1, <4>1, <4>2
    <3> HIDE DEF Good
    <3>4. RowsMade'
      BY <1>1, <1>2, <3>2, <3>3
    <3> QED BY <3>1, <3>4, StillDefined
  <2> QED BY <2>1, <2>2
<1>7. CASE ProcessKnown(p, e)
  <2> DEFINE row == Unpack(rows[p])
  <2>1. p \in DOMAIN rows /\ e # Nothing
    BY <1>7 DEF ProcessKnown
  <2>2. PICK f \in FilesAt(p), T \in InstalledTypes : e = CollectAttributes(f, T)
    BY <2>1
  <2>3. PICK g \in FilesAt(p), U \in InstalledTypes : rows[p] = Pack(CollectAttributes(g, U))
    BY <1>1, <2>1 DEF RowMade
  <2> DEFINE x == CollectAttributes(g, U)
  <2>4. p \in PossibleNames
    BY <1>1, <2>1
  <2>5. /\ IsElement(e) /\ DOMAIN e = Collectable(f, T) /\ RowMade(p, Pack(e)) /\ DOMAIN e \subseteq AttrTypeSet
        /\ IsElement(x) /\ DOMAIN x = Collectable(g, U) /\ DOMAIN x \subseteq AttrTypeSet
        /\ ReadsNothing(Pack(x)) <=> "POSIX_ACL" \in DOMAIN x
    BY <2>2, <2>4, MadeOf
  <2> HIDE DEF x
  <2>6. rows[p] = Pack(x) /\ DOMAIN row = DOMAIN x /\ ToldIs(told[p], Pack(x))
    BY <1>1, <2>1, <2>3, <2>5, Unpacked DEF x
  <2>7. CASE ReadsNothing(rows[p])
    <3>1. undefined' = "acl" /\ UNCHANGED <<rows, told>>
      BY <1>7, <2>7 DEF ProcessKnown
    <3> QED BY <1>3, <1>4, <2>1, <2>7, <3>1
  <2>8. CASE ~ ReadsNothing(rows[p]) /\ SameElement(e, row)
    <3>1. undefined' = "no" /\ UNCHANGED <<rows, told>>
      BY <1>7, <2>8 DEF ProcessKnown, known
    <3> QED BY <1>3, <3>1, StillDefined
  <2>9. CASE ~ ReadsNothing(rows[p]) /\ ~ SameElement(e, row) /\ Shared(e, row) # {}
    <3>1. undefined' = "node" /\ rows' = With(rows, p, Pack(e)) /\ told' = told
      BY <1>7, <2>9 DEF ProcessKnown
    <3>a. DOMAIN rows' = DOMAIN rows \union {p} /\ rows'[p] = Pack(e)
          /\ \A q \in DOMAIN rows \ {p} : rows'[q] = rows[q]
      BY <3>1 DEF With
    <3>2. DOMAIN rows' = DOMAIN rows
      BY <2>1, <3>a
    <3>3. ASSUME NEW q \in DOMAIN rows' PROVE Good(q)
      <4>1. CASE q = p
        BY <2>5, <3>1, <3>a, <4>1
      <4>2. CASE q # p
        <5>1. rows'[q] = rows[q]
          BY <3>2, <3>a, <4>2
        <5> QED BY <1>1, <3>1, <3>2, <5>1
      <4> QED BY <4>1, <4>2
    <3>4. RowsMade'
      <4> HIDE DEF Good
      <4> QED BY <1>1, <1>2, <3>1, <3>2, <3>3
    <3>5. ~ Collectable(g, U) \subseteq Collectable(f, T)
      BY <2>5, <2>6, <2>9 DEF Shared
    <3>6. PICK c \in PossibleContents(p) \ {Nothing} : Collectable(g, U) = Collectable(c, U)
      BY <2>3, <2>4, FileIsContent
    <3>7. PICK d \in PossibleContents(p) \ {Nothing} : Collectable(f, T) = Collectable(d, T)
      BY <2>2, <2>4, FileIsContent
    <3>8. PossibleContents(p)' = PossibleContents(p)
      BY DEF PossibleContents
    <3>9. ~ Collectable(c, U) \subseteq Collectable(d, T)
      BY <3>5, <3>6, <3>7
    <3>10. UndefinedOnlyIf'
      <4>1. \E T1, U1 \in InstalledTypes, q \in PossibleNames :
              \E c1, d1 \in PossibleContents(q)' \ {Nothing} : ~ Collectable(c1, T1) \subseteq Collectable(d1, U1)
        BY <2>2, <2>3, <2>4, <3>6, <3>7, <3>8, <3>9
      <4> QED BY <3>1, <4>1, SameScenario DEF UndefinedOnlyIf
    <3> QED BY <3>1, <3>4, <3>10
  <2>10. CASE ~ ReadsNothing(rows[p]) /\ ~ SameElement(e, row) /\ Shared(e, row) = {}
    <3> DEFINE u == ToldOf(p, e, row)
    <3>1. undefined' = "no" /\ rows' = With(rows, p, Pack(e)) /\ told' = With(told, p, u)
      BY <1>7, <2>10 DEF ProcessKnown
    <3>a. DOMAIN rows' = DOMAIN rows \union {p} /\ rows'[p] = Pack(e)
          /\ \A q \in DOMAIN rows \ {p} : rows'[q] = rows[q]
      BY <3>1 DEF With
    <3>b. DOMAIN told' = DOMAIN told \union {p} /\ told'[p] = u
          /\ \A q \in DOMAIN told \ {p} : told'[q] = told[q]
      <4> HIDE DEF u
      <4> QED BY <3>1 DEF With
    <3>2. DOMAIN rows' = DOMAIN rows /\ DOMAIN told' = DOMAIN told
      BY <1>1, <2>1, <3>a, <3>b
    <3>3. DOMAIN u = DOMAIN e /\ Visible(Pack(u)) = Visible(Pack(e))
      <4>1. "POSIX_ACL" \notin DOMAIN x
        BY <2>5, <2>6, <2>10
      <4>2. DOMAIN told[p] = DOMAIN x /\ Visible(Pack(told[p])) = Visible(Pack(x))
        BY <2>5, <2>6, Packed DEF ToldIs
      <4>3. Shared(e, Unpack(Pack(x))) = {} /\ u = ToldOf(p, e, Unpack(Pack(x)))
        BY <2>6, <2>10
      <4> HIDE DEF u, row
      <4> QED BY <2>5, <4>1, <4>2, <4>3, ToldFollows
    <3> HIDE DEF u
    <3>4. ToldIs(u, Pack(e))
      BY <2>5, <3>3, Packed DEF ToldIs
    <3>5. ASSUME NEW q \in DOMAIN rows' PROVE Good(q)
      <4>1. CASE q = p
        BY <2>5, <3>4, <3>a, <3>b, <4>1
      <4>2. CASE q # p
        <5>1. rows'[q] = rows[q] /\ told'[q] = told[q]
          BY <1>1, <3>2, <3>a, <3>b, <4>2
        <5> QED BY <1>1, <3>2, <5>1
      <4> QED BY <4>1, <4>2
    <3>6. RowsMade'
      <4> HIDE DEF Good
      <4> QED BY <1>1, <1>2, <3>2, <3>5
    <3> QED BY <3>1, <3>6, StillDefined
  <2> QED BY <2>7, <2>8, <2>9, <2>10
<1>8. CASE UNCHANGED known
  <2>1. undefined' = "no" /\ UNCHANGED <<rows, told>>
    BY <1>8 DEF known
  <2> QED BY <1>3, <2>1, StillDefined
<1> QED BY <1>5, <1>6, <1>7, <1>8 DEF Process

-----------------------------------------------------------------------------
(* What becomes of the files                                               *)

(* What is known of a directory as a file.                                 *)
LEMMA DirectoryWas ==
  ASSUME TreeTyped, NEW p, IsDirectory(p)
  PROVE  /\ p \in PossibleNames /\ IsName(p)
         /\ \E c \in PossibleContents(p) \ {Nothing} : c.ftype = "DIRECTORY" /\ c.readable = tree[p].readable
<1>1. p \in DOMAIN tree /\ tree[p].ftype = "DIRECTORY" /\ p \in PossibleNames /\ tree[p] \in FilesAt(p)
  BY DEF TreeTyped, IsDirectory
<1> QED BY <1>1, FileIsContent, InScenario DEF TreeTyped

(* Looking at a file changes no more of it than its times.                 *)
LEMMA CollectedKeepsFiles ==
  ASSUME TreeTyped, TreeIsWhole, NEW p, Collected(p), sc' = sc
  PROVE  /\ TreeTyped' /\ TreeIsWhole' /\ \A q : IsDirectory(q)' <=> IsDirectory(q)
         /\ noted' # noted => p \in DOMAIN tree
<1>1. CASE UNCHANGED <<tree, noted>>
  BY <1>1, SameFiles DEF files
<1>2. CASE ~ UNCHANGED <<tree, noted>>
  <2> DEFINE f == AfterCollecting(tree[p], job.types)
  <2>1. p \in DOMAIN tree /\ tree' = [tree EXCEPT ![p] = f] /\ noted' = noted \union {p}
    BY <1>2 DEF Collected, FileExists
  <2>2. p \in PossibleNames /\ tree[p] \in FilesAt(p)
    BY <2>1 DEF TreeTyped
  <2>3. f \in FilesAt(p) /\ f.ftype = tree[p].ftype
    BY <2>2, FileIsContent DEF TreeTyped
  <2> HIDE DEF f
  <2>4. DOMAIN tree' = DOMAIN tree /\ tree'[p] = f /\ \A q \in DOMAIN tree \ {p} : tree'[q] = tree[q]
    BY <2>1
  <2>5. ASSUME NEW q PROVE IsDirectory(q)' <=> IsDirectory(q)
    <3>1. q \in DOMAIN tree => tree'[q].ftype = tree[q].ftype
      BY <2>3, <2>4
    <3> QED BY <2>4, <3>1 DEF IsDirectory
  <2>6. TreeIsWhole'
    BY <2>4, <2>5, SameScenario DEF TreeIsWhole
  <2>7. \A q \in DOMAIN tree' : tree'[q] \in FilesAt(q)
    BY <2>3, <2>4 DEF TreeTyped
  <2>8. TreeTyped'
    BY <2>1, <2>2, <2>4, <2>7, SameScenario DEF TreeTyped
  <2> QED BY <2>1, <2>5, <2>6, <2>8
<1> QED BY <1>1, <1>2

(* A change leaves what is below a name below a directory; a directory goes*)
(* if it may go.                                                           *)
LEMMA ChangeKeepsFiles ==
  ASSUME TreeTyped, TreeIsWhole, NEW x \in Sc.changes, Change(x[1], x[2])
  PROVE  /\ TreeTyped' /\ TreeIsWhole' /\ x[1] \in PossibleNames
         /\ \A q : IsDirectory(q) => IsDirectory(q)' \/ DirectoryMayGo
<1> DEFINE p == x[1]
           c == x[2]
           lost == IF c # Nothing /\ c.ftype = "DIRECTORY" THEN {} ELSE Below(p)
           rest == Without(tree, {p} \union lost)
<1>1. /\ c = Nothing => p \in DOMAIN tree
      /\ c # Nothing => IsDirectory(DirName(p))
      /\ tree' = IF c = Nothing THEN rest ELSE With(rest, p, c)
      /\ noted' = noted \union (IF installs > 0 THEN {p} \union lost ELSE {})
      /\ sc' = sc
  BY DEF Change
<1>2. p \in PossibleNames /\ c \in PossibleContents(p)
  BY DEF PossibleNames, NamesIn, PossibleContents, ContentsIn, Sc
<1>3. lost \subseteq DOMAIN tree /\ (lost = {} \/ lost = Below(p)) /\ (c = Nothing \/ c.ftype # "DIRECTORY" => lost = Below(p))
  BY DEF Below
<1> HIDE DEF p, c, lost
<1>4. DOMAIN rest = DOMAIN tree \ ({p} \union lost) /\ \A q \in DOMAIN rest : rest[q] = tree[q]
  BY DEF Without, Restrict
<1> HIDE DEF rest
<1>5. /\ DOMAIN tree' = IF c = Nothing THEN DOMAIN rest ELSE DOMAIN rest \union {p}
      /\ c # Nothing => tree'[p] = c
      /\ \A q \in DOMAIN rest : tree'[q] = tree[q]
  <2>1. CASE c = Nothing
    BY <1>1, <1>4, <2>1
  <2>2. CASE c # Nothing
    <3>1. tree' = With(rest, p, c)
      BY <1>1, <2>2
    <3>2. DOMAIN tree' = DOMAIN rest \union {p} /\ tree'[p] = c /\ \A q \in DOMAIN rest \ {p} : tree'[q] = rest[q]
      BY <3>1 DEF With
    <3> QED BY <1>4, <2>2, <3>2
  <2> QED BY <2>1, <2>2
<1>6. TreeTyped'
  <2>1. DOMAIN tree' \subseteq PossibleNames /\ noted' \subseteq PossibleNames
    BY <1>1, <1>2, <1>3, <1>4, <1>5 DEF TreeTyped
  <2>2. ASSUME NEW q \in DOMAIN tree' PROVE tree'[q] \in FilesAt(q)
    <3>1. CASE q \in DOMAIN rest
      BY <1>4, <1>5, <3>1 DEF TreeTyped
    <3>2. CASE q \notin DOMAIN rest
      <4>1. q = p /\ c # Nothing /\ tree'[q] = c
        BY <1>5, <3>2
      <4> QED BY <1>2, <4>1 DEF FilesAt
    <3> QED BY <3>1, <3>2
  <2> QED BY <1>1, <2>1, <2>2, SameScenario DEF TreeTyped
<1>7. \A q \in PossibleNames : IsName(q)
  BY InScenario DEF TreeTyped
<1>8. ASSUME NEW q, IsDirectory(q), q # p, q \notin lost PROVE IsDirectory(q)'
  <2>1. q \in DOMAIN rest
    BY <1>4, <1>8 DEF IsDirectory
  <2> QED BY <1>5, <1>8, <2>1 DEF IsDirectory
<1>9. ASSUME NEW r \in DOMAIN tree', NEW q \in PossibleNames, IsBelow(r, q)
      PROVE  IsDirectory(q)'
  <2>1. CASE r \in DOMAIN rest
    <3>1. r \in DOMAIN tree /\ r # p /\ r \notin lost /\ r \in PossibleNames /\ IsDirectory(q)
      BY <1>4, <1>9, <2>1 DEF TreeIsWhole, TreeTyped
    <3>2. ASSUME q \in {p} \union lost, lost = Below(p) PROVE FALSE
      <4>1. IsBelow(r, p)
        BY <1>2, <1>7, <1>9, <3>1, <3>2, BelowBelow DEF Below
      <4> QED BY <3>1, <3>2, <4>1 DEF Below
    <3>3. CASE q \notin {p} \union lost
      BY <1>8, <3>1, <3>3
    <3>4. CASE q = p /\ lost # Below(p)
      <4>1. c # Nothing /\ c.ftype = "DIRECTORY"
        BY <1>3, <3>4
      <4> QED BY <1>5, <3>4, <4>1 DEF IsDirectory
    <3> QED BY <1>3, <3>2, <3>3, <3>4
  <2>2. CASE r \notin DOMAIN rest
    <3>1. r = p /\ c # Nothing
      BY <1>5, <2>2
    <3>2. IsDirectory(DirName(p)) /\ IsName(p) /\ IsName(q)
      BY <1>1, <1>2, <1>7, <3>1
    <3>3. q = DirName(p) \/ IsBelow(DirName(p), q)
      BY <1>9, <3>1, <3>2, AboveDirectory
    <3>4. IsDirectory(q)
      BY <3>2, <3>3 DEF TreeIsWhole, IsDirectory
    <3>5. q # p
      BY <1>9, <3>1 DEF IsBelow
    <3>6. q \notin Below(p)
      <4> SUFFICES ASSUME IsBelow(q, p) PROVE FALSE
        BY DEF Below
      <4>1. IsBelow(p, p)
        BY <1>9, <3>1, <3>2, BelowBelow
      <4> QED BY <4>1 DEF IsBelow
    <3> QED BY <1>3, <1>8, <3>4, <3>5, <3>6
  <2> QED BY <2>1, <2>2
<1>10. TreeIsWhole'
  BY <1>1, <1>9, SameScenario DEF TreeIsWhole
<1>11. ASSUME NEW q, IsDirectory(q), ~ IsDirectory(q)' PROVE DirectoryMayGo
  <2>1. q = p \/ q \in lost
    BY <1>8, <1>11
  <2>2. c = Nothing \/ c.ftype # "DIRECTORY"
    <3> SUFFICES ASSUME c # Nothing, c.ftype = "DIRECTORY" PROVE FALSE
      OBVIOUS
    <3>1. lost = {}
      BY DEF lost
    <3> QED BY <1>5, <1>11, <2>1, <3>1 DEF IsDirectory
  <2>3. IsDirectory(p)
    <3>1. CASE q = p
      BY <1>11, <3>1
    <3>2. CASE q \in lost
      <4>1. q \in DOMAIN tree /\ IsBelow(q, p)
        BY <1>3, <3>2 DEF Below
      <4> QED BY <1>2, <4>1 DEF TreeIsWhole
    <3> QED BY <2>1, <3>1, <3>2
  <2>4. \E d \in PossibleContents(p) \ {Nothing} : d.ftype = "DIRECTORY"
    BY <2>3, DirectoryWas
  <2> QED BY <1>2, <2>2, <2>4 DEF DirectoryMayGo
<1> QED BY <1>2, <1>6, <1>10, <1>11 DEF p, c

-----------------------------------------------------------------------------
(* The invariant holds at first.                                           *)
LEMMA ScanInvInit ==
  ASSUME ScanInit
  PROVE  ScanInv
<1>1. sc \in DOMAIN Scenarios /\ tree = Scenarios[sc].tree /\ DOMAIN tree \subseteq PossibleNames
  BY DEF ScanInit, PossibleNames, NamesIn
<1>2. ASSUME NEW p \in DOMAIN tree PROVE tree[p] \in FilesAt(p)
  <2>1. tree[p] \in PossibleContents(p)
    BY <1>1 DEF PossibleContents, ContentsIn
  <2>2. tree[p] # Nothing
    BY <1>1, ScanAssumption
  <2> QED BY <2>1, <2>2 DEF FilesAt
<1>3. TreeTyped
  BY <1>1, <1>2 DEF TreeTyped, ScanInit
<1>4. TreeIsWhole
  BY <1>1, ScanAssumption DEF TreeIsWhole, IsDirectory, PossibleNames
<1>5. ConfigTyped /\ JobsTyped /\ Crawling
  <2>1. queue \in Seq(Jobs)
    BY EmptySeq DEF ScanInit
  <2>2. ConfigTyped
    <3>1. installs = 0 /\ ~ freed /\ freed \in BOOLEAN /\ types = {} /\ noted = {} /\ queue = << >> /\ phase = "idle"
      BY DEF ScanInit
    <3> QED BY <3>1 DEF ConfigTyped
  <2>3. JobsTyped
    BY <2>1 DEF ScanInit, JobsTyped, Phases
  <2>4. phase = "idle" /\ frames = << >>
    BY DEF ScanInit
  <2>5. Crawling
    BY <2>4 DEF Crawling, InCrawl
  <2> QED BY <2>2, <2>3, <2>5
<1>6. RowsMade /\ UndefinedOnlyIf /\ undefined = "no"
  <2>1. DOMAIN rows = {} /\ DOMAIN told = {}
    BY DEF ScanInit
  <2> QED BY <2>1 DEF ScanInit, RowsMade, UndefinedOnlyIf
<1> QED BY <1>3, <1>4, <1>5, <1>6 DEF ScanInv

-----------------------------------------------------------------------------
(* The files and the jobs                                                  *)

(* A change of a file: what a crawl looks at is still below its directory. *)
LEMMA ChangeKeepsScanInv ==
  ASSUME ScanInv, NEW x \in Sc.changes, Change(x[1], x[2])
  PROVE  ScanInv'
<1> DEFINE p == x[1]
           c == x[2]
<1>1. /\ undefined = "no" /\ undefined' = "no" /\ UNCHANGED <<sc, types, freed, queue, job, phase, at, rows, told, installs>>
      /\ c # Nothing => IsDirectory(DirName(p))
      /\ noted' # noted => installs > 0
  BY DEF Change, config, known
<1>2. TreeTyped' /\ TreeIsWhole' /\ p \in PossibleNames /\ \A q : IsDirectory(q) => IsDirectory(q)' \/ DirectoryMayGo
  BY ChangeKeepsFiles DEF ScanInv
<1>3. ConfigTyped' /\ JobsTyped'
  BY <1>1, SameScenario DEF ScanInv, ConfigTyped, JobsTyped
<1>4. RowsMade'
  BY <1>1, SameRows DEF ScanInv
<1>5. (frames = << >> => frames' = << >>) /\ (InCrawl => frames' \in Seq(Frames)) /\ (InCrawl /\ frames # << >> => frames' # << >>)
  <2>1. CASE UNCHANGED frames
    BY <2>1 DEF ScanInv, Crawling
  <2>2. CASE /\ c # Nothing /\ p \notin DOMAIN tree
             /\ frames' = [i \in DOMAIN frames |->
                        IF frames[i].dir = DirName(p) THEN [frames[i] EXCEPT !.left = @ \union {p}]
                                                      ELSE frames[i]]
    <3> DEFINE n == Len(frames)
               g(i) == IF frames[i].dir = DirName(p) THEN [frames[i] EXCEPT !.left = @ \union {p}] ELSE frames[i]
    <3>1. frames \in Seq(Frames)
      BY EmptySeq DEF ScanInv, Crawling
    <3>2. n \in Nat /\ DOMAIN frames = 1 .. n /\ \A i \in 1 .. n : frames[i] \in Frames
      BY <3>1, LenProperties, ElementOfSeq
    <3>3. ASSUME NEW i \in 1 .. n PROVE g(i) \in Frames
      <4> DEFINE fr == frames[i]
      <4>1. fr \in Frames /\ n # 0
        BY <3>2
      <4> HIDE DEF fr
      <4>2. InCrawl
        <5>1. frames # << >>
          BY <3>2, <4>1
        <5> QED BY <5>1 DEF ScanInv, Crawling
      <4>3. CASE fr.dir # DirName(p)
        BY <4>1, <4>3 DEF fr
      <4>4. CASE fr.dir = DirName(p)
        <5>1. AtTop(DirName(p)) /\ IsDirectory(DirName(p)) /\ CrawlTop \in PossibleNames
          BY <1>1, <2>2, <4>1, <4>2, <4>4 DEF Frames, ScanInv, Crawling
        <5>2. IsName(DirName(p)) /\ IsName(p) /\ IsName(CrawlTop)
          BY <1>2, <5>1, InScenario DEF AtTop, ScanInv, TreeTyped
        <5>3. p # <<Sep>>
          BY <2>2, <5>1, DirOfRoot DEF IsDirectory
        <5>4. IsPrefix(CrawlTop, p) /\ p # CrawlTop
          <6>1. IsPrefix(CrawlTop, DirName(p)) /\ IsPrefix(DirName(p), p) /\ DirName(p) # p
            BY <5>1, <5>2, <5>3, DirOfName DEF AtTop
          <6> QED BY <5>2, <6>1, PrefixOfPrefix
        <5>5. InTop(p)
          BY <1>2, <5>4 DEF InTop
        <5>6. [fr EXCEPT !.left = @ \union {p}] \in Frames
          BY <4>1, <5>5, <1>2 DEF Frames
        <5> QED BY <4>4, <5>6 DEF fr
      <4> QED BY <4>3, <4>4
    <3>4. frames' \in [1 .. n -> Frames]
      <4>1. frames' = [i \in 1 .. n |-> g(i)]
        BY <2>2, <3>2
      <4> HIDE DEF g, n
      <4> QED BY <3>3, <4>1
    <3>5. frames' \in Seq(Frames) /\ Len(frames') = n
      <4> HIDE DEF n
      <4> QED BY <3>2, <3>4, FunctionIsSeq
    <3>6. (frames = << >> <=> n = 0) /\ (frames' = << >> <=> n = 0)
      BY <3>1, <3>5, EmptySeq
    <3> QED BY <3>5, <3>6
  <2> QED BY <2>1, <2>2, <1>1 DEF Change
<1>6. Crawling'
  <2>1. InCrawl' <=> InCrawl
    BY <1>1 DEF InCrawl
  <2> HIDE DEF p, c
  <2> QED BY <1>1, <1>2, <1>5, <2>1, SameCrawl, SameScenario DEF ScanInv, Crawling, InCrawl
<1> QED BY <1>1, <1>2, <1>3, <1>4, <1>6, StillDefined DEF ScanInv

(* A configuration is installed.                                           *)
LEMMA InstallKeepsScanInv ==
  ASSUME ScanInv, NEW r \in Sc.types, Install(r)
  PROVE  ScanInv'
<1> DEFINE new == [incl |-> Includes, types |-> types', event |-> FALSE]
<1>1. /\ undefined = "no" /\ UNCHANGED <<sc, tree, noted, job, phase, at, frames, rows, told>>
      /\ types' = RequestedTypes(r) /\ freed' = ~ Known(r)
      /\ queue' = Append(queue, new) /\ undefined' = (IF freed THEN "types" ELSE "no") /\ installs' = installs + 1
  BY DEF Install, files, runner
<1>2. sc \in DOMAIN Scenarios /\ types' \in InstalledTypes
  BY <1>1 DEF ScanInv, TreeTyped, InstalledTypes
<1>3. new \in Jobs
  BY <1>2, InScenario DEF Jobs
<1>4. TreeTyped' /\ TreeIsWhole' /\ \A p : IsDirectory(p)' <=> IsDirectory(p)
  BY <1>1, SameFiles DEF ScanInv, files
<1>5. ConfigTyped'
  <2>1. installs' \in Nat /\ installs' > 0 /\ freed' \in BOOLEAN /\ (freed' => \E t \in Sc.types : ~ Known(t))
    BY <1>1 DEF ScanInv, ConfigTyped
  <2> QED BY <1>1, <1>2, <2>1, SameScenario DEF ConfigTyped
<1>6. JobsTyped'
  <2>1. queue' \in Seq(Jobs)
    <3> HIDE DEF new
    <3> QED BY <1>1, <1>3, AppendProperties DEF ScanInv, JobsTyped
  <2> QED BY <1>1, <2>1, SameScenario DEF ScanInv, JobsTyped
<1>7. Crawling'
  BY <1>1, <1>4, SameCrawl, SameScenario DEF ScanInv, Crawling, InCrawl
<1>8. RowsMade'
  BY <1>1, SameRows DEF ScanInv
<1>9. undefined' \in {"no", "types"} /\ UndefinedOnlyIf'
  <2>1. CASE freed
    <3>1. \E t \in Sc.types : ~ Known(t)
      BY <2>1 DEF ScanInv, ConfigTyped
    <3> QED BY <1>1, <2>1, <3>1, SameScenario DEF UndefinedOnlyIf
  <2>2. CASE ~ freed
    BY <1>1, <2>2, StillDefined
  <2> QED BY <2>1, <2>2
<1> QED BY <1>4, <1>5, <1>6, <1>7, <1>8, <1>9 DEF ScanInv

(* An event is delivered.                                                  *)
LEMMA EventKeepsScanInv ==
  ASSUME ScanInv, NEW p \in noted, EventReceived(p)
  PROVE  ScanInv'
<1> DEFINE new == [incl |-> <<p>>, types |-> types, event |-> TRUE]
<1>1. /\ undefined = "no" /\ undefined' = "no"
      /\ UNCHANGED <<sc, tree, types, freed, job, phase, at, frames, rows, told, installs>>
      /\ noted' = noted \ {p} /\ (queue' = queue \/ queue' = Append(queue, new))
  BY DEF EventReceived, config, runner, known, bounds
<1>2. sc \in DOMAIN Scenarios /\ installs > 0 /\ types \in InstalledTypes /\ p \in PossibleNames
  BY DEF ScanInv, TreeTyped, ConfigTyped
<1>3. new \in Jobs
  <2>1. p \in Patterns
    BY <1>2, InScenario
  <2>2. <<p>> \in Seq(Patterns)
    BY <2>1
  <2> QED BY <1>2, <2>2 DEF Jobs
<1>4. TreeTyped' /\ TreeIsWhole' /\ \A q : IsDirectory(q)' <=> IsDirectory(q)
  <2>1. \A q : IsDirectory(q)' <=> IsDirectory(q)
    BY <1>1 DEF IsDirectory
  <2>2. TreeIsWhole'
    BY <1>1, <2>1, SameScenario DEF ScanInv, TreeIsWhole
  <2>3. TreeTyped'
    BY <1>1, SameScenario DEF ScanInv, TreeTyped
  <2> QED BY <2>1, <2>2, <2>3
<1>5. ConfigTyped'
  BY <1>1, <1>2, SameScenario DEF ScanInv, ConfigTyped
<1>6. JobsTyped'
  <2>1. queue' \in Seq(Jobs)
    <3> HIDE DEF new
    <3> QED BY <1>1, <1>3, AppendProperties DEF ScanInv, JobsTyped
  <2> QED BY <1>1, <2>1, SameScenario DEF ScanInv, JobsTyped
<1>7. Crawling'
  BY <1>1, <1>4, SameCrawl, SameScenario DEF ScanInv, Crawling, InCrawl
<1>8. RowsMade'
  BY <1>1, SameRows DEF ScanInv
<1> QED BY <1>1, <1>4, <1>5, <1>6, <1>7, <1>8, StillDefined DEF ScanInv

(* A job begins, and ends.                                                 *)
LEMMA TakeJobKeepsScanInv ==
  ASSUME ScanInv, TakeJob
  PROVE  ScanInv'
<1>1. /\ undefined = "no" /\ undefined' = "no"
      /\ UNCHANGED <<sc, tree, noted, types, freed, at, frames, rows, told, installs>>
      /\ phase = "idle" /\ queue # << >> /\ job' = Head(queue) /\ queue' = Tail(queue) /\ phase' = "include"
  BY DEF TakeJob, files, config, known, bounds
<1>2. TreeTyped' /\ TreeIsWhole'
  BY <1>1, SameFiles DEF ScanInv, files
<1>3. ConfigTyped'
  BY <1>1, SameScenario DEF ScanInv, ConfigTyped
<1>4. JobsTyped'
  <2>1. job' \in Jobs /\ queue' \in Seq(Jobs)
    BY <1>1, HeadTailProperties DEF ScanInv, JobsTyped
  <2> QED BY <1>1, <2>1, SameScenario DEF JobsTyped, Phases
<1>5. Crawling'
  BY <1>1 DEF ScanInv, Crawling, InCrawl
<1>6. RowsMade'
  BY <1>1, SameRows DEF ScanInv
<1> QED BY <1>1, <1>2, <1>3, <1>4, <1>5, <1>6, StillDefined DEF ScanInv

(* A job with no includes left ends.                                       *)
LEMMA EndJobKeepsScanInv ==
  ASSUME ScanInv, EndJob
  PROVE  ScanInv'
<1>1. /\ undefined = "no" /\ undefined' = "no"
      /\ UNCHANGED <<sc, tree, noted, types, freed, queue, at, frames, rows, told, installs>>
      /\ phase = "include" /\ job' = NoJob /\ phase' = "idle"
  BY DEF EndJob, files, config, known, bounds
<1>2. TreeTyped' /\ TreeIsWhole'
  BY <1>1, SameFiles DEF ScanInv, files
<1>3. ConfigTyped'
  BY <1>1, SameScenario DEF ScanInv, ConfigTyped
<1>4. JobsTyped'
  BY <1>1, SameScenario DEF ScanInv, JobsTyped, Phases
<1>5. Crawling'
  BY <1>1 DEF ScanInv, Crawling, InCrawl
<1>6. RowsMade'
  BY <1>1, SameRows DEF ScanInv
<1> QED BY <1>1, <1>2, <1>3, <1>4, <1>5, <1>6, StillDefined DEF ScanInv

-----------------------------------------------------------------------------
(* The includes                                                            *)

(* A job that runs, and what is left of it after an include.               *)
LEMMA RunningJob ==
  ASSUME ScanInv, phase # "idle"
  PROVE  /\ job \in Jobs /\ job.incl \in Seq(Patterns) /\ job.types \in InstalledTypes /\ installs > 0
         /\ job.incl # << >> => Head(job.incl) \in Patterns /\ NextInclude \in Jobs
<1>1. job \in Jobs /\ installs > 0
  BY DEF ScanInv, JobsTyped, ConfigTyped
<1>2. job.incl \in Seq(Patterns) /\ job.types \in InstalledTypes
  BY <1>1 DEF Jobs
<1>3. ASSUME job.incl # << >> PROVE Head(job.incl) \in Patterns /\ NextInclude \in Jobs
  <2> DEFINE s == job.incl
  <2>1. Head(s) \in Patterns /\ Tail(s) \in Seq(Patterns) /\ << >> \in Seq(Patterns)
    <3> HIDE DEF s
    <3> QED BY <1>2, <1>3, HeadTailProperties, EmptySeq DEF s
  <2>2. NextInclude = [job EXCEPT !.incl = << >>] \/ NextInclude = [job EXCEPT !.incl = Tail(s)]
    BY DEF NextInclude
  <2> HIDE DEF s
  <2>3. \A t \in Seq(Patterns) : [job EXCEPT !.incl = t] \in Jobs
    BY <1>1 DEF Jobs
  <2> QED BY <2>1, <2>2, <2>3 DEF s
<1> QED BY <1>1, <1>2, <1>3

(* What is found of a file is collected of it, for the job's types.        *)
LEMMA FoundIsCollected ==
  ASSUME ScanInv, phase # "idle", NEW p
  PROVE  Found(p) = Nothing \/ (p \in PossibleNames /\ \E f \in FilesAt(p), T \in InstalledTypes :
                                  Found(p) = CollectAttributes(f, T))
<1> SUFFICES ASSUME FileExists(p)
             PROVE  p \in PossibleNames /\ \E f \in FilesAt(p), T \in InstalledTypes :
                                  Found(p) = CollectAttributes(f, T)
  BY DEF Found
<1>1. p \in PossibleNames /\ tree[p] \in FilesAt(p)
  BY DEF FileExists, ScanInv, TreeTyped
<1>2. job.types \in InstalledTypes
  BY RunningJob
<1>3. Found(p) = CollectAttributes(tree[p], job.types)
  BY DEF Found
<1> QED BY <1>1, <1>2, <1>3

(* An include without a special character names one file.                  *)
LEMMA RunLiteralKeepsScanInv ==
  ASSUME ScanInv, RunLiteral
  PROVE  ScanInv'
<1> DEFINE i == Head(job.incl)
           p == UnescapePattern(i)
<1>1. /\ undefined = "no" /\ phase = "include" /\ job.incl # << >> /\ job' = NextInclude
      /\ FirstUnescapedSpecialChar(i) = 0
      /\ UNCHANGED <<sc, types, freed, queue, phase, at, frames, installs>>
      /\ \/ ReadsPastEnd(i) /\ undefined' = "escape" /\ UNCHANGED <<rows, told, tree, noted>>
         \/ Process(p, Found(p)) /\ Collected(p)
  BY DEF RunLiteral, config, bounds
<1>0. i \in Patterns
  BY <1>1, RunningJob
<1> HIDE DEF i, p
<1>2. /\ RowsMade' /\ UndefinedOnlyIf'
      /\ undefined' \in {"no", "element", "iterator", "node", "acl", "types", "escape"}
  <2>1. phase # "idle" /\ sc' = sc /\ sc \in DOMAIN Scenarios /\ RowsMade
    BY <1>1 DEF ScanInv, TreeTyped
  <2>2. CASE ReadsPastEnd(i) /\ undefined' = "escape" /\ UNCHANGED <<rows, told, tree, noted>>
    <3>1. UndefinedOnlyIf'
      BY <1>0, <1>1, <2>2, SameScenario DEF UndefinedOnlyIf
    <3> QED BY <1>1, <2>1, <2>2, <3>1, SameRows
  <2>3. CASE Process(p, Found(p))
    BY <1>1, <2>1, <2>3, FoundIsCollected, ProcessKeepsRows
  <2> QED BY <1>1, <2>2, <2>3
<1>3. TreeTyped' /\ TreeIsWhole'
  <2>1. CASE UNCHANGED <<tree, noted>>
    BY <1>1, <2>1, SameFiles DEF ScanInv, files
  <2>2. CASE Collected(p)
    BY <1>1, <2>2, CollectedKeepsFiles DEF ScanInv
  <2> QED BY <1>1, <2>1, <2>2
<1>4. NextInclude \in Jobs /\ installs > 0
  BY <1>1, RunningJob
<1>5. ConfigTyped'
  BY <1>1, <1>4, SameScenario DEF ScanInv, ConfigTyped
<1>6. JobsTyped'
  BY <1>1, <1>4, SameScenario DEF ScanInv, JobsTyped
<1>7. Crawling'
  BY <1>1 DEF ScanInv, Crawling, InCrawl
<1> QED BY <1>2, <1>3, <1>5, <1>6, <1>7 DEF ScanInv

(* An include with one is crawled for, from its top directory.             *)
LEMMA RunPatternKeepsScanInv ==
  ASSUME ScanInv, RunPattern
  PROVE  ScanInv'
<1> DEFINE i == Head(job.incl)
<1>1. /\ undefined = "no" /\ undefined' = "no" /\ phase = "include" /\ job.incl # << >>
      /\ FirstUnescapedSpecialChar(i) # 0
      /\ UNCHANGED <<sc, tree, noted, types, freed, queue, frames, rows, told, installs>>
      /\ \/ IsDirectory(TopDir(i)) /\ phase' = "open" /\ at' = TopDir(i) /\ job' = job
         \/ job' = NextInclude /\ phase' = phase
  BY DEF RunPattern, files, config, known, bounds
<1>2. TreeTyped' /\ TreeIsWhole' /\ \A p : IsDirectory(p)' <=> IsDirectory(p)
  BY <1>1, SameFiles DEF ScanInv, files
<1>3. NextInclude \in Jobs /\ installs > 0 /\ job \in Jobs
  BY <1>1, RunningJob
<1>4. ConfigTyped'
  BY <1>1, <1>3, SameScenario DEF ScanInv, ConfigTyped
<1>5. JobsTyped'
  <2>1. job' \in Jobs /\ phase' \in {"include", "open"}
    BY <1>1, <1>3
  <2> QED BY <1>1, <2>1, SameScenario DEF ScanInv, JobsTyped, Phases
<1>6. frames = << >>
  BY <1>1 DEF ScanInv, Crawling, InCrawl
<1>7. Crawling'
  <2>1. CASE IsDirectory(TopDir(i)) /\ phase' = "open" /\ at' = TopDir(i) /\ job' = job
    <3>1. CrawlTop = TopDir(i) /\ CrawlTop \in PossibleNames /\ IsName(CrawlTop)
      BY <2>1, DirectoryWas DEF CrawlTop, ScanInv
    <3>2. IsPrefix(CrawlTop, CrawlTop)
      <4>1. CrawlTop \in Seq(ToSet(CrawlTop)) /\ Len(CrawlTop) \in Nat
        BY <3>1, NameIsSequence
      <4> QED BY <4>1, PrefixIs
    <3>3. AtTop(at') /\ IsDirectory(at')
      BY <2>1, <3>1, <3>2 DEF AtTop
    <3>4. AtTop(at)' /\ IsDirectory(at)'
      BY <1>1, <2>1, <3>3, SameCrawl, SameScenario DEF AtTop, IsDirectory
    <3>5. frames' \in Seq(Frames')
      BY <1>1, <1>6, EmptySeq
    <3>6. CrawlTop' = CrawlTop /\ PossibleNames' = PossibleNames
      BY <1>1, <2>1, SameCrawl, SameScenario
    <3> HIDE DEF i
    <3>7. job'.incl # << >> /\ FirstUnescapedSpecialChar(Head(job'.incl)) # 0
      BY <1>1, <2>1 DEF i
    <3> QED BY <2>1, <3>1, <3>4, <3>5, <3>6, <3>7 DEF Crawling, InCrawl
  <2>2. CASE job' = NextInclude /\ phase' = phase
    BY <1>1, <1>6, <2>2 DEF Crawling, InCrawl
  <2> QED BY <1>1, <2>1, <2>2
<1>8. RowsMade'
  BY <1>1, SameRows DEF ScanInv
<1> QED BY <1>1, <1>2, <1>4, <1>5, <1>7, <1>8, StillDefined DEF ScanInv

-----------------------------------------------------------------------------
(* The crawl                                                               *)

(* The entries of a directory are the names in it.                         *)
LEMMA EntriesAreIn ==
  ASSUME TreeTyped, NEW dir, NEW p \in Entries(dir)
  PROVE  p \in PossibleNames /\ IsPrefix(dir, p) /\ p # dir
<1>1. PICK q \in DOMAIN tree : q # dir /\ DirName(q) = dir /\ p = EntryName(dir, BaseName(q))
  BY DEF Entries
<1>2. q \in PossibleNames /\ IsName(q)
  BY <1>1, InScenario DEF TreeTyped
<1>3. q # <<Sep>>
  BY <1>1, DirOfRoot
<1>4. EntryName(DirName(q), BaseName(q)) = q /\ IsPrefix(DirName(q), q)
  BY <1>2, <1>3, DirOfName
<1> QED BY <1>1, <1>2, <1>4

(* A directory is opened, and crawled, or can not be.                      *)
LEMMA OpenKeepsScanInv ==
  ASSUME ScanInv, Open
  PROVE  ScanInv'
<1>1. /\ undefined = "no" /\ phase = "open" /\ phase' = "entry"
      /\ UNCHANGED <<sc, tree, noted, types, freed, queue, job, at, rows, told, installs>>
  BY DEF Open, files, config, bounds
<1>2. TreeTyped' /\ TreeIsWhole' /\ \A p : IsDirectory(p)' <=> IsDirectory(p)
  BY <1>1, SameFiles DEF ScanInv, files
<1>3. ConfigTyped' /\ JobsTyped'
  BY <1>1, SameScenario DEF ScanInv, ConfigTyped, JobsTyped, Phases
<1>4. RowsMade'
  BY <1>1, SameRows DEF ScanInv
<1>5. /\ AtTop(at) /\ (IsDirectory(at) \/ DirectoryMayGo) /\ frames \in Seq(Frames)
      /\ job.incl # << >> /\ FirstUnescapedSpecialChar(Head(job.incl)) # 0 /\ CrawlTop \in PossibleNames
  BY <1>1 DEF ScanInv, Crawling, InCrawl
<1>6. CASE IsDirectory(at) /\ tree[at].readable
  <2> DEFINE new == [dir |-> at, left |-> Entries(at), elem |-> "unset"]
  <2>1. frames' = Append(frames, new) /\ undefined' = "no"
    BY <1>1, <1>6 DEF Open
  <2>2. ASSUME NEW p \in Entries(at) PROVE InTop(p)
    <3>1. p \in PossibleNames /\ IsPrefix(at, p) /\ p # at
      BY EntriesAreIn DEF ScanInv
    <3>2. IsName(CrawlTop) /\ IsName(at) /\ IsName(p) /\ IsPrefix(CrawlTop, at)
      BY <1>5, <3>1, InScenario DEF AtTop, ScanInv, TreeTyped
    <3>3. IsPrefix(CrawlTop, p) /\ p # CrawlTop
      BY <3>1, <3>2, PrefixOfPrefix
    <3> QED BY <3>1, <3>3 DEF InTop
  <2>3. new \in Frames
    BY <1>5, <2>2 DEF Frames, AtTop, InTop
  <2> HIDE DEF new
  <2>4. frames' \in Seq(Frames) /\ frames' # << >>
    BY <1>5, <2>1, <2>3, AppendProperties
  <2>5. Crawling'
    BY <1>1, <1>5, <2>1, <2>4, SameCrawl, SameScenario DEF Crawling, InCrawl
  <2> QED BY <1>2, <1>3, <1>4, <2>1, <2>5, StillDefined DEF ScanInv
<1>7. CASE ~ (IsDirectory(at) /\ tree[at].readable)
  <2>1. frames' = frames /\ undefined' = "iterator"
    BY <1>1, <1>7 DEF Open
  <2>2. DirectoryMayGo
    <3> SUFFICES ASSUME IsDirectory(at), ~ tree[at].readable PROVE DirectoryMayGo
      BY <1>5, <1>7
    <3>1. /\ at \in PossibleNames
          /\ \E c \in PossibleContents(at) \ {Nothing} : c.ftype = "DIRECTORY" /\ c.readable = tree[at].readable
      BY DirectoryWas DEF ScanInv
    <3> QED BY <3>1 DEF DirectoryMayGo
  <2>3. UndefinedOnlyIf'
    BY <1>1, <2>1, <2>2, SameScenario DEF UndefinedOnlyIf
  <2>4. Crawling'
    BY <1>1, <1>5, <2>1, SameCrawl, SameScenario DEF Crawling, InCrawl
  <2> QED BY <1>2, <1>3, <1>4, <2>1, <2>3, <2>4 DEF ScanInv
<1> QED BY <1>6, <1>7

(* An entry may be a directory to crawl first.                             *)
LEMMA EntryTypeKeepsScanInv ==
  ASSUME ScanInv, EntryType
  PROVE  ScanInv'
<1>1. /\ undefined = "no" /\ undefined' = "no" /\ phase = "type"
      /\ phase' = (IF IsDirectory(at) THEN "open" ELSE "entry")
      /\ UNCHANGED <<sc, tree, noted, types, freed, queue, job, at, frames, rows, told, installs>>
  BY DEF EntryType, files, config, bounds, known
<1>2. TreeTyped' /\ TreeIsWhole' /\ \A p : IsDirectory(p)' <=> IsDirectory(p)
  BY <1>1, SameFiles DEF ScanInv, files
<1>3. ConfigTyped' /\ JobsTyped'
  BY <1>1, SameScenario DEF ScanInv, ConfigTyped, JobsTyped, Phases
<1>4. RowsMade'
  BY <1>1, SameRows DEF ScanInv
<1>5. /\ InTop(at) /\ frames \in Seq(Frames) /\ frames # << >>
      /\ job.incl # << >> /\ FirstUnescapedSpecialChar(Head(job.incl)) # 0 /\ CrawlTop \in PossibleNames
  BY <1>1 DEF ScanInv, Crawling, InCrawl
<1>6. AtTop(at)
  BY <1>5 DEF AtTop, InTop
<1>7. AtTop(at)' /\ (IsDirectory(at)' <=> IsDirectory(at))
  BY <1>1, <1>2, <1>6, SameCrawl, SameScenario DEF AtTop, IsDirectory
<1>8. Crawling'
  <2>1. CrawlTop' = CrawlTop /\ Frames' = Frames /\ PossibleNames' = PossibleNames
    BY <1>1, SameCrawl, SameScenario
  <2> QED BY <1>1, <1>5, <1>7, <2>1 DEF Crawling, InCrawl
<1> QED BY <1>1, <1>2, <1>3, <1>4, <1>8, StillDefined DEF ScanInv

(* A directory with no entries left is closed.                             *)
LEMMA EndCrawlKeepsScanInv ==
  ASSUME ScanInv, EndCrawl
  PROVE  ScanInv'
<1>1. /\ undefined = "no" /\ undefined' = "no" /\ phase = "entry" /\ frames' = Front(frames)
      /\ IF Len(frames) = 1 THEN phase' = "include" /\ job' = NextInclude ELSE UNCHANGED <<phase, job>>
      /\ UNCHANGED <<sc, tree, noted, types, freed, queue, at, rows, told, installs>>
  BY DEF EndCrawl, files, config, bounds, known
<1>2. TreeTyped' /\ TreeIsWhole' /\ \A p : IsDirectory(p)' <=> IsDirectory(p)
  BY <1>1, SameFiles DEF ScanInv, files
<1>3. RowsMade'
  BY <1>1, SameRows DEF ScanInv
<1>4. /\ frames \in Seq(Frames) /\ frames # << >>
      /\ job.incl # << >> /\ FirstUnescapedSpecialChar(Head(job.incl)) # 0 /\ CrawlTop \in PossibleNames
  BY <1>1 DEF ScanInv, Crawling, InCrawl
<1>5. NextInclude \in Jobs /\ installs > 0 /\ job \in Jobs
  BY <1>1, <1>4, RunningJob
<1>6. ConfigTyped'
  BY <1>1, <1>5, SameScenario DEF ScanInv, ConfigTyped
<1>7. JobsTyped'
  <2>1. job' \in Jobs /\ phase' \in {"include", "entry"}
    BY <1>1, <1>5
  <2> QED BY <1>1, <2>1, SameScenario DEF ScanInv, JobsTyped, Phases
<1>8. frames' \in Seq(Frames) /\ Len(frames') = Len(frames) - 1 /\ Len(frames) \in Nat /\ Len(frames) # 0
  <2>1. Len(frames) \in Nat /\ Len(frames) # 0 /\ frames' = SubSeq(frames, 1, Len(frames) - 1)
    BY <1>1, <1>4, EmptySeq, LenProperties DEF Front
  <2>2. /\ 1 \in 1 .. Len(frames) + 1 /\ Len(frames) - 1 \in 1 - 1 .. Len(frames)
        /\ (Len(frames) - 1) + 1 - 1 = Len(frames) - 1
    BY <2>1
  <2> QED BY <1>4, <2>1, <2>2, PartOf
<1>9. Crawling'
  <2>1. CASE Len(frames) = 1
    <3>1. frames' = << >> /\ phase' = "include"
      BY <1>1, <1>8, <2>1, EmptySeq
    <3> QED BY <3>1 DEF Crawling, InCrawl
  <2>2. CASE Len(frames) # 1
    <3>1. frames' # << >> /\ phase' = "entry" /\ job' = job
      <4>1. Len(frames') # 0
        BY <1>8, <2>2
      <4> QED BY <1>1, <2>2, <4>1, EmptySeq
    <3>2. CrawlTop' = CrawlTop /\ Frames' = Frames /\ PossibleNames' = PossibleNames
      BY <1>1, <3>1, SameCrawl, SameScenario
    <3> QED BY <1>4, <1>8, <3>1, <3>2 DEF Crawling, InCrawl
  <2> QED BY <2>1, <2>2
<1> QED BY <1>1, <1>2, <1>3, <1>6, <1>7, <1>9, StillDefined DEF ScanInv

(* The crawl is at an entry of the last directory opened.                  *)
LEMMA AtEntry ==
  ASSUME ScanInv, undefined = "no", phase = "entry", NEW p \in Last(frames).left
  PROVE  /\ frames \in Seq(Frames) /\ frames # << >> /\ Len(frames) \in Nat \ {0} /\ Last(frames) \in Frames
         /\ Last(frames) = frames[Len(frames)] /\ InTop(p)
         /\ job.incl # << >> /\ FirstUnescapedSpecialChar(Head(job.incl)) # 0 /\ CrawlTop \in PossibleNames
<1>1. /\ frames \in Seq(Frames) /\ frames # << >>
      /\ job.incl # << >> /\ FirstUnescapedSpecialChar(Head(job.incl)) # 0 /\ CrawlTop \in PossibleNames
  BY DEF ScanInv, Crawling, InCrawl
<1>2. Len(frames) \in Nat \ {0}
  BY <1>1, EmptySeq
<1>3. Last(frames) = frames[Len(frames)] /\ Last(frames) \in Frames
  BY <1>1, <1>2, ElementOfSeq DEF Last
<1>4. InTop(p)
  BY <1>3 DEF Frames
<1> QED BY <1>1, <1>2, <1>3, <1>4

(* An entry less is left of that directory.                                *)
LEMMA EntryLess ==
  ASSUME NEW D, NEW L, NEW E, NEW old \in [dir : D, left : SUBSET L, elem : E], NEW p, NEW e \in E
  PROVE  /\ [old EXCEPT !.left = @ \ {p}] \in [dir : D, left : SUBSET L, elem : E]
         /\ [old EXCEPT !.left = @ \ {p}, !.elem = e] \in [dir : D, left : SUBSET L, elem : E]
OBVIOUS

(* The last of the frames is replaced by another frame.                    *)
LEMMA FrameLess ==
  ASSUME frames \in Seq(Frames), Len(frames) \in Nat \ {0}, NEW fr \in Frames
  PROVE  [frames EXCEPT ![Len(frames)] = fr] \in Seq(Frames) /\ [frames EXCEPT ![Len(frames)] = fr] # << >>
<1> DEFINE n == Len(frames)
<1>1. n \in 1 .. Len(frames) /\ n # 0
  OBVIOUS
<1> HIDE DEF n
<1>2. [frames EXCEPT ![n] = fr] \in Seq(Frames) /\ Len([frames EXCEPT ![n] = fr]) = Len(frames)
  BY <1>1, ExceptSeq
<1>3. [frames EXCEPT ![n] = fr] # << >>
  BY <1>2, EmptySeq
<1> QED BY <1>2, <1>3 DEF n

(* Taking an entry leaves the crawl where it should be.                    *)
LEMMA TookKeepsCrawling ==
  ASSUME ScanInv, undefined = "no", phase = "entry", NEW p \in Last(frames).left,
         NEW e \in {"unset", "freed", "null"}, Took(p, e), sc' = sc, job' = job
  PROVE  Crawling'
<1> DEFINE n == Len(frames)
           old == frames[n]
           fr == [old EXCEPT !.left = @ \ {p}, !.elem = e]
<1>1. /\ frames \in Seq(Frames) /\ n \in Nat \ {0} /\ Last(frames) \in Frames
      /\ Last(frames) = frames[n] /\ InTop(p)
      /\ job.incl # << >> /\ FirstUnescapedSpecialChar(Head(job.incl)) # 0 /\ CrawlTop \in PossibleNames
  BY AtEntry
<1>2. old \in Frames
  BY <1>1
<1>3. frames' = [frames EXCEPT ![n] = fr]
  <2>1. frames' = [frames EXCEPT ![n].left = @ \ {p}, ![n].elem = e]
    BY DEF Took
  <2>2. n \in DOMAIN frames
    BY <1>1, LenProperties
  <2> HIDE DEF n
  <2> QED BY <2>1, <2>2
<1> HIDE DEF old
<1>4. fr \in Frames
  BY <1>2, EntryLess DEF Frames
<1> HIDE DEF fr
<1>5. frames' \in Seq(Frames) /\ frames' # << >>
  BY <1>1, <1>3, <1>4, FrameLess DEF n
<1>6. phase' = "type" /\ at' = p
  BY DEF Took
<1>7. CrawlTop' = CrawlTop /\ Frames' = Frames /\ PossibleNames' = PossibleNames
  BY SameCrawl, SameScenario
<1>8. InTop(at)'
  BY <1>1, <1>6, <1>7 DEF InTop
<1> QED BY <1>1, <1>5, <1>6, <1>7, <1>8 DEF Crawling, InCrawl

(* An entry that an include designates and no exclude does is processed.   *)
LEMMA CrawlWantedKeepsScanInv ==
  ASSUME ScanInv, NEW p, CrawlWanted(p)
  PROVE  ScanInv'
<1> DEFINE e == IF FileExists(p) THEN "freed" ELSE "null"
<1>1. /\ undefined = "no" /\ phase = "entry" /\ p \in Last(frames).left
      /\ Process(p, Found(p)) /\ Collected(p) /\ Took(p, e)
      /\ UNCHANGED <<sc, types, freed, queue, job, installs>>
  BY DEF CrawlWanted, config, bounds
<1>2. phase # "idle" /\ sc \in DOMAIN Scenarios /\ RowsMade /\ e \in {"unset", "freed", "null"}
      /\ phase' = "type"
  BY <1>1 DEF ScanInv, TreeTyped, Took
<1> HIDE DEF e
<1>3. /\ RowsMade' /\ UndefinedOnlyIf'
      /\ undefined' \in {"no", "element", "iterator", "node", "acl", "types", "escape"}
  BY <1>1, <1>2, FoundIsCollected, ProcessKeepsRows
<1>4. TreeTyped' /\ TreeIsWhole'
  BY <1>1, CollectedKeepsFiles DEF ScanInv
<1>5. installs > 0 /\ job \in Jobs
  BY <1>1, <1>2, RunningJob
<1>6. ConfigTyped'
  BY <1>1, <1>5, SameScenario DEF ScanInv, ConfigTyped
<1>7. JobsTyped'
  BY <1>1, <1>2, <1>5, SameScenario DEF ScanInv, JobsTyped, Phases
<1>8. Crawling'
  BY <1>1, <1>2, TookKeepsCrawling
<1> QED BY <1>3, <1>4, <1>6, <1>7, <1>8 DEF ScanInv

(* An entry that is not wanted is one that the crawl passes over.          *)
LEMMA CrawlUnwantedKeepsScanInv ==
  ASSUME ScanInv, NEW p, CrawlUnwanted(p)
  PROVE  ScanInv'
<1> DEFINE e == Last(frames).elem
<1>1. /\ undefined = "no" /\ phase = "entry" /\ p \in Last(frames).left /\ ~ Wanted(p)
      /\ \/ Process(p, Nothing)
         \/ undefined' = "element" /\ UNCHANGED <<rows, told>>
      /\ Took(p, e)
      /\ UNCHANGED <<sc, tree, noted, types, freed, queue, job, installs>>
  BY DEF CrawlUnwanted, files, config, bounds
<1>2. /\ phase # "idle" /\ sc \in DOMAIN Scenarios /\ RowsMade /\ phase' = "type"
      /\ Last(frames) \in Frames /\ InTop(p) /\ FirstUnescapedSpecialChar(Head(job.incl)) # 0 /\ job.incl # << >>
  BY <1>1, AtEntry DEF ScanInv, TreeTyped, Took
<1>3. e \in {"unset", "freed", "null"}
  BY <1>2 DEF Frames
<1> HIDE DEF e
<1>4. /\ RowsMade' /\ UndefinedOnlyIf'
      /\ undefined' \in {"no", "element", "iterator", "node", "acl", "types", "escape"}
  <2>1. CASE Process(p, Nothing)
    BY <1>1, <1>2, <2>1, ProcessKeepsRows
  <2>2. CASE undefined' = "element" /\ UNCHANGED <<rows, told>>
    <3> DEFINE i == Head(job.incl)
    <3>1. i \in Patterns /\ i \in Crawled
      BY <1>2, RunningJob DEF Crawled
    <3>2. IsPrefix(TopDir(i), p) /\ p # TopDir(i) /\ p \in PossibleNames
      BY <1>2 DEF InTop, CrawlTop
    <3>3. ~ (Matches(p, i) /\ ~ \E x \in Excludes : Matches(p, x))
      BY <1>1 DEF Wanted, JobExcludes
    <3> HIDE DEF i
    <3>4. \A x \in {i} \union Excludes : Matches(p, x) <=> Designates(x, p)
      BY <1>2, <3>1, <3>2, InScenario
    <3>5. PassedOver(p)
      BY <3>1, <3>2, <3>3, <3>4 DEF PassedOver
    <3>6. UndefinedOnlyIf'
      BY <1>1, <2>2, <3>2, <3>5, SameScenario DEF UndefinedOnlyIf
    <3>7. RowsMade'
      BY <1>1, <1>2, <2>2, SameRows
    <3> QED BY <2>2, <3>6, <3>7
  <2> QED BY <1>1, <2>1, <2>2
<1>5. TreeTyped' /\ TreeIsWhole'
  BY <1>1, SameFiles DEF ScanInv, files
<1>6. installs > 0 /\ job \in Jobs
  BY <1>1, <1>2, RunningJob
<1>7. ConfigTyped'
  BY <1>1, <1>6, SameScenario DEF ScanInv, ConfigTyped
<1>8. JobsTyped'
  BY <1>1, <1>2, <1>6, SameScenario DEF ScanInv, JobsTyped, Phases
<1>9. Crawling'
  BY <1>1, <1>3, TookKeepsCrawling
<1> QED BY <1>4, <1>5, <1>7, <1>8, <1>9 DEF ScanInv

(* An entry that is gone by the time the crawl looks at it.                *)
LEMMA CrawlMissingKeepsScanInv ==
  ASSUME ScanInv, NEW p, CrawlMissing(p)
  PROVE  ScanInv'
<1> DEFINE n == Len(frames)
           old == frames[n]
           fr == [old EXCEPT !.left = @ \ {p}]
<1>1. /\ undefined = "no" /\ undefined' = "no" /\ phase = "entry" /\ p \in Last(frames).left
      /\ frames' = [frames EXCEPT ![n].left = @ \ {p}]
      /\ UNCHANGED <<sc, tree, noted, types, freed, queue, job, phase, at, rows, told, installs>>
  BY DEF CrawlMissing, files, config, known, bounds
<1>2. /\ frames \in Seq(Frames) /\ n \in Nat \ {0} /\ old \in Frames
      /\ job.incl # << >> /\ FirstUnescapedSpecialChar(Head(job.incl)) # 0 /\ CrawlTop \in PossibleNames
  BY <1>1, AtEntry
<1>3. frames' = [frames EXCEPT ![n] = fr]
  <2>1. n \in DOMAIN frames
    BY <1>2, LenProperties
  <2> HIDE DEF n
  <2> QED BY <1>1, <2>1
<1> HIDE DEF old
<1>4. fr \in Frames
  BY <1>2, EntryLess DEF Frames
<1> HIDE DEF fr
<1>5. frames' \in Seq(Frames) /\ frames' # << >>
  BY <1>2, <1>3, <1>4, FrameLess DEF n
<1>6. CrawlTop' = CrawlTop /\ Frames' = Frames /\ PossibleNames' = PossibleNames
  BY <1>1, SameCrawl, SameScenario
<1>7. Crawling'
  BY <1>1, <1>2, <1>5, <1>6 DEF Crawling, InCrawl
<1>8. TreeTyped' /\ TreeIsWhole'
  BY <1>1, SameFiles DEF ScanInv, files
<1>9. ConfigTyped' /\ JobsTyped'
  BY <1>1, SameScenario DEF ScanInv, ConfigTyped, JobsTyped
<1>10. RowsMade'
  BY <1>1, SameRows DEF ScanInv
<1> QED BY <1>1, <1>7, <1>8, <1>9, <1>10, StillDefined DEF ScanInv

-----------------------------------------------------------------------------
(* The theorems about scans                                                *)

(* Every step of a scan, and every change of a file, keeps the invariant.  *)
THEOREM ScanInvHolds == ScanSpec => []ScanInv
<1>1. ASSUME ScanInv, [ScanNext]_scanVars PROVE ScanInv'
  <2>1. CASE UNCHANGED scanVars
    <3>1. UNCHANGED <<sc, tree, noted, types, freed, queue, job, phase, at, frames, rows, told, undefined, installs>>
      BY <2>1 DEF scanVars, files, config, runner, known, bounds
    <3>2. TreeTyped' /\ TreeIsWhole' /\ \A p : IsDirectory(p)' <=> IsDirectory(p)
      BY <1>1, <3>1, SameFiles DEF ScanInv, files
    <3>3. ConfigTyped' /\ JobsTyped'
      BY <1>1, <3>1, SameScenario DEF ScanInv, ConfigTyped, JobsTyped
    <3>4. Crawling'
      BY <1>1, <3>1, <3>2, SameCrawl, SameScenario DEF ScanInv, Crawling, InCrawl
    <3>5. RowsMade'
      BY <1>1, <3>1, SameScenario DEF ScanInv, RowsMade
    <3>6. UndefinedOnlyIf'
      BY <1>1, <3>1, SameScenario DEF ScanInv, UndefinedOnlyIf, PossibleContents
    <3> QED BY <1>1, <3>1, <3>2, <3>3, <3>4, <3>5, <3>6 DEF ScanInv
  <2>2. CASE \E x \in Sc.changes : Change(x[1], x[2])
    BY <1>1, <2>2, ChangeKeepsScanInv
  <2>3. CASE \E r \in Sc.types : Install(r)
    BY <1>1, <2>3, InstallKeepsScanInv
  <2>4. CASE \E p \in noted : EventReceived(p)
    BY <1>1, <2>4, EventKeepsScanInv
  <2>5. CASE TakeJob
    BY <1>1, <2>5, TakeJobKeepsScanInv
  <2>6. CASE EndJob
    BY <1>1, <2>6, EndJobKeepsScanInv
  <2>7. CASE RunLiteral
    BY <1>1, <2>7, RunLiteralKeepsScanInv
  <2>8. CASE RunPattern
    BY <1>1, <2>8, RunPatternKeepsScanInv
  <2>9. CASE Open
    BY <1>1, <2>9, OpenKeepsScanInv
  <2>10. CASE EntryType
    BY <1>1, <2>10, EntryTypeKeepsScanInv
  <2>11. CASE EndCrawl
    BY <1>1, <2>11, EndCrawlKeepsScanInv
  <2>12. CASE \E p : CrawlWanted(p) \/ CrawlUnwanted(p) \/ CrawlMissing(p)
    BY <1>1, <2>12, CrawlWantedKeepsScanInv, CrawlUnwantedKeepsScanInv, CrawlMissingKeepsScanInv
  <2> QED BY <1>1, <2>1, <2>2, <2>3, <2>4, <2>5, <2>6, <2>7, <2>8, <2>9, <2>10, <2>11, <2>12 DEF ScanNext, RunnerStep
<1> QED BY <1>1, ScanInvInit, PTL DEF ScanSpec

(* The variables of a scan have their types: the rows have attributes of   *)
(* known types, and a crawl has an include and a directory.                *)
THEOREM ScanTypesHold == ScanSpec => []ScanTypeOK
<1>1. ASSUME ScanInv PROVE ScanTypeOK
  <2>1. /\ sc \in DOMAIN Scenarios /\ DOMAIN tree \subseteq PossibleNames /\ noted \subseteq PossibleNames
        /\ types \in {{}} \union InstalledTypes /\ freed \in BOOLEAN /\ phase \in Phases
        /\ DOMAIN told = DOMAIN rows
        /\ undefined \in {"no", "element", "iterator", "node", "acl", "types", "escape"}
    BY <1>1 DEF ScanInv, TreeTyped, ConfigTyped, JobsTyped, RowsMade
  <2>2. /\ phase \in {"open", "entry", "type"} => job.incl # << >>
        /\ undefined = "no" /\ phase \in {"entry", "type"} => frames # << >>
    BY <1>1 DEF ScanInv, Crawling, InCrawl
  <2>3. ASSUME NEW p \in DOMAIN rows PROVE Known(DOMAIN rows[p])
    <3>1. PICK f \in FilesAt(p), T \in InstalledTypes : rows[p] = Pack(CollectAttributes(f, T))
      BY <1>1 DEF ScanInv, RowsMade, RowMade
    <3>2. DOMAIN CollectAttributes(f, T) \subseteq AttrTypeSet
      BY <1>1, <2>1, <3>1, MadeOf DEF ScanInv, RowsMade
    <3> QED BY <3>1, <3>2, Packed DEF Known
  <2> QED BY <2>1, <2>2, <2>3 DEF ScanTypeOK
<1> QED BY <1>1, ScanInvHolds, PTL

(* Whatever the tree and the patterns, what the code does is undefined for *)
(* the six reasons only.                                                   *)
THEOREM UndefinedForSixReasons == ScanSpec => []UndefinedOnlyIf
<1>1. ASSUME ScanInv PROVE UndefinedOnlyIf
  BY <1>1 DEF ScanInv
<1> QED BY <1>1, ScanInvHolds, PTL

(* Whatever happens to the files and the configuration, the reports taken  *)
(* together tell what the rows say, as far as an int tells the difference. *)
THEOREM ReportsFollowRows == ScanSpec => []ToldFollowsRows
<1>1. ASSUME ScanInv PROVE ToldFollowsRows
  BY <1>1 DEF ScanInv, RowsMade, ToldIs, ToldFollowsRows
<1> QED BY <1>1, ScanInvHolds, PTL

-----------------------------------------------------------------------------
(* Patterns                                                                *)

(* The first character, if it is kept, comes first.                        *)
LEMMA GatheredFirst ==
  ASSUME NEW S, NEW s \in Seq(S), NEW keep, 1 \in keep, Len(s) >= 1
  PROVE  Gathered(s, keep) # << >> /\ Gathered(s, keep)[1] = s[1]
<1> DEFINE n == Len(s)
<1>0. n \in Nat /\ n >= 1 /\ \A k \in 1 .. n : s[k] \in S
  <2>1. Len(s) \in Nat
    BY LenProperties
  <2> QED BY <2>1, ElementOfSeq
<1>1. PICK f : Keeps(f, s, keep, n) /\ Gathered(s, keep) = f[n]
  BY <1>0, GatheredIs
<1> DEFINE P == {k \in Nat : k <= n => f[k] \in Seq(S) /\ (k > 0 => Len(f[k]) >= 1 /\ f[k][1] = s[1])}
<1> HIDE DEF n
<1>2. 0 \in P
  <2>1. f[0] = << >>
    BY <1>0, <1>1, KeepsAt
  <2>2. f[0] \in Seq(S)
    BY <2>1, EmptySeq
  <2> QED BY <2>2
<1>3. ASSUME NEW k \in P PROVE k + 1 \in P
  <2> SUFFICES ASSUME k + 1 <= n
               PROVE  f[k + 1] \in Seq(S) /\ Len(f[k + 1]) >= 1 /\ f[k + 1][1] = s[1]
    OBVIOUS
  <2>1. k \in Nat /\ k + 1 \in 0 .. n /\ k + 1 \in 1 .. n /\ (k + 1) - 1 = k /\ k + 1 # 0 /\ k <= n
    BY <1>0
  <2>2. f[k + 1] = IF k + 1 \in keep THEN Append(f[k], s[k + 1]) ELSE f[k]
    BY <1>1, <2>1, KeepsAt
  <2>3. f[k] \in Seq(S) /\ (k > 0 => Len(f[k]) >= 1 /\ f[k][1] = s[1]) /\ s[k + 1] \in S
    BY <1>0, <2>1
  <2>4. Len(f[k]) \in Nat
    BY <2>3, LenProperties
  <2>5. /\ Append(f[k], s[k + 1]) \in Seq(S) /\ Len(Append(f[k], s[k + 1])) = Len(f[k]) + 1
        /\ \A i \in 1 .. Len(f[k]) : Append(f[k], s[k + 1])[i] = f[k][i]
        /\ Append(f[k], s[k + 1])[Len(f[k]) + 1] = s[k + 1]
    BY <2>3, AppendProperties
  <2>6. CASE k = 0
    <3>1. f[k] = << >>
      <4>1. 0 \in 0 .. n
        BY <1>0
      <4>2. f[0] = << >>
        BY <1>1, <4>1, KeepsAt
      <4> QED BY <2>6, <4>2
    <3>2. Len(f[k]) = 0
      BY <3>1, EmptySeq
    <3> QED BY <2>2, <2>5, <2>6, <3>2
  <2>7. CASE k > 0
    <3>1. 1 \in 1 .. Len(f[k])
      BY <2>3, <2>4, <2>7
    <3> QED BY <2>2, <2>3, <2>4, <2>5, <2>7, <3>1
  <2> QED BY <2>1, <2>6, <2>7
<1>4. P = Nat
  <2>1. P \in SUBSET Nat
    OBVIOUS
  <2> HIDE DEF P
  <2> QED BY <1>2, <1>3, <2>1, NatSetInduction
<1>5. f[n] \in Seq(S) /\ Len(f[n]) >= 1 /\ f[n][1] = s[1]
  BY <1>0, <1>4
<1>6. f[n] # << >>
  BY <1>5, EmptySeq
<1> QED BY <1>1, <1>5, <1>6

(* What is left of a pattern, if anything, is one that begins with a       *)
(* separator.                                                              *)
LEMMA CleansedIsPattern ==
  ASSUME NEW n, n \in Seq(ToSet(n)), Cleansed(n) # << >>
  PROVE  Cleansed(n) \in Seq(ToSet(n)) /\ Len(Cleansed(n)) \in Nat \ {0} /\ Cleansed(n)[1] = Sep
<1> DEFINE S == ToSet(n)
           keep == {k \in DOMAIN n : k > 1 /\ n[k] = Sep => n[k - 1] # Sep}
           m == RemoveDuplicateDirSeps(n)
<1>1. m = Gathered(n, keep)
  BY DEF RemoveDuplicateDirSeps
<1>2. n # << >> /\ Head(n) = Sep /\ Cleansed(n) = IF Len(m) > 1 /\ Last(m) = Sep THEN Front(m) ELSE m
  BY DEF Cleansed, IsFileNameAbsolute
<1>3. n \in Seq(S) /\ Len(n) \in Nat /\ DOMAIN n = 1 .. Len(n)
  BY LenProperties
<1> HIDE DEF S
<1>4. Len(n) # 0
  BY <1>2, <1>3, EmptySeq
<1>5. n[1] = Sep /\ 1 \in keep
  BY <1>2, <1>3, <1>4
<1>6. \A k \in 1 .. Len(n) : n[k] \in S
  BY <1>3, ElementOfSeq
<1> HIDE DEF keep, m
<1>7. m \in Seq(S)
  BY <1>1, <1>3, <1>6, GatheredIsSeq
<1>8. m # << >> /\ m[1] = Sep
  <2>1. Len(n) >= 1
    BY <1>3, <1>4
  <2> QED BY <1>1, <1>3, <1>5, <2>1, GatheredFirst
<1>9. Len(m) \in Nat \ {0}
  BY <1>7, <1>8, LenProperties, EmptySeq
<1>10. CASE Len(m) > 1 /\ Last(m) = Sep
  <2>1. Front(m) = SubSeq(m, 1, Len(m) - 1)
    BY DEF Front
  <2>2. 1 \in 1 .. Len(m) + 1 /\ Len(m) - 1 \in 1 - 1 .. Len(m) /\ Len(m) - 1 + 1 - 1 = Len(m) - 1
    BY <1>9, <1>10
  <2>3. /\ Front(m) \in Seq(S) /\ Len(Front(m)) = Len(m) - 1
        /\ \A i \in 1 .. Len(m) - 1 : Front(m)[i] = m[1 + i - 1]
    BY <1>7, <2>1, <2>2, PartOf
  <2>4. Front(m)[1] = m[1]
    BY <1>9, <1>10, <2>3
  <2> QED BY <1>2, <1>8, <1>9, <1>10, <2>3, <2>4 DEF S
<1> QED BY <1>2, <1>7, <1>8, <1>9, <1>10 DEF S

(* A pattern is a sequence of characters that begins with a separator.     *)
LEMMA PatternIsSequence ==
  ASSUME sc \in DOMAIN Scenarios, NEW i \in Patterns
  PROVE  i \in Seq(ToSet(i)) /\ Len(i) \in Nat \ {0} /\ i[1] = Sep
<1>1. CASE i \in PossibleNames
  <2>1. IsName(i)
    BY <1>1, InScenario
  <2> QED BY <2>1, NameIsSequence
<1>2. CASE i \in ToSet(Includes)
  <2> DEFINE incl == Scenarios[sc].incl
             T == {Cleansed(x) : x \in ToSet(incl)} \ {<< >>}
             m == [k \in DOMAIN incl |-> Cleansed(incl[k])]
             keep == {k \in DOMAIN incl : m[k] # << >>}
  <2>1. incl \in Seq(ToSet(incl)) /\ \A x \in ToSet(incl) : x \in Seq(ToSet(x))
    BY ScanAssumption
  <2>2. Includes = Gathered(m, keep)
    BY DEF Includes, Requests, Absolute
  <2> HIDE DEF incl
  <2>3. DOMAIN incl = 1 .. Len(incl) /\ Len(incl) \in Nat /\ \A k \in 1 .. Len(incl) : incl[k] \in ToSet(incl)
    BY <2>1, LenProperties, ElementOfSeq
  <2>4. m \in [1 .. Len(incl) -> {m[k] : k \in 1 .. Len(incl)}]
    BY <2>3
  <2>5. \A k \in 1 .. Len(incl) : k \in keep => m[k] \in T
    BY <2>3
  <2> HIDE DEF m, keep
  <2>6. Len(m) = Len(incl)
    BY <2>3, <2>4, FunctionIsSeq
  <2> HIDE DEF T
  <2>7. Includes \in Seq(T)
    BY <2>2, <2>3, <2>5, <2>6, GatheredIsSeq
  <2>8. i \in T
    <3>1. PICK k \in DOMAIN Includes : i = Includes[k]
      BY <1>2 DEF ToSet
    <3>2. DOMAIN Includes = 1 .. Len(Includes)
      BY <2>7, LenProperties
    <3> QED BY <2>7, <3>1, <3>2, ElementOfSeq
  <2>9. PICK x \in ToSet(incl) : i = Cleansed(x) /\ i # << >>
    BY <2>8 DEF T
  <2>10. i \in Seq(ToSet(x)) /\ Len(i) \in Nat \ {0} /\ i[1] = Sep
    BY <2>1, <2>9, CleansedIsPattern
  <2>11. i \in Seq(Range(i))
    BY <2>10, SeqOfRange
  <2> QED BY <2>10, <2>11 DEF Range, ToSet
<1>3. Patterns = ToSet(Includes) \union PossibleNames
  BY DEF Patterns, PatternsIn, Includes, PossibleNames
<1> QED BY <1>1, <1>2, <1>3

(* The escapes before a position are those before the last, and that one.  *)
LEMMA EscapesNext ==
  ASSUME NEW p, NEW k \in Nat \ {0}
  PROVE  /\ EscapesBefore(p, 1) = 0
         /\ EscapesBefore(p, k) \in Nat
         /\ EscapesBefore(p, k + 1) = IF p[k] = Escape THEN EscapesBefore(p, k) + 1 ELSE 0
<1> DEFINE E(n) == {i \in 1 .. (n - 1) : \A j \in i .. (n - 1) : p[j] = Escape}
<1>1. \A n : EscapesBefore(p, n) = Cardinality(E(n))
  BY DEF EscapesBefore
<1>2. E(1) = {}
  OBVIOUS
<1>3. IsFiniteSet(E(k))
  <2>1. IsFiniteSet(1 .. (k - 1)) /\ E(k) \subseteq 1 .. (k - 1)
    BY FS_Interval
  <2> HIDE DEF E
  <2> QED BY <2>1, FS_Subset
<1>4. CASE p[k] = Escape
  <2>1. E(k + 1) = E(k) \union {k}
    BY <1>4
  <2>2. k \notin E(k)
    OBVIOUS
  <2> HIDE DEF E
  <2>3. Cardinality(E(k + 1)) = Cardinality(E(k)) + 1
    BY <1>3, <2>1, <2>2, FS_AddElement
  <2> QED BY <1>1, <1>2, <1>3, <1>4, <2>3, FS_EmptySet, FS_CardinalityType
<1>5. CASE p[k] # Escape
  <2>1. E(k + 1) = {}
    BY <1>5
  <2> HIDE DEF E
  <2>2. EscapesBefore(p, 1) = 0 /\ EscapesBefore(p, k + 1) = 0
    BY <1>1, <1>2, <2>1, FS_EmptySet
  <2>3. EscapesBefore(p, k) \in Nat
    BY <1>1, <1>3, FS_CardinalityType
  <2> QED BY <1>5, <2>2, <2>3
<1> QED BY <1>4, <1>5

(* The first special character that is not escaped, and what is before it. *)
LEMMA FirstSpecial ==
  ASSUME NEW p, NEW S, p \in Seq(S)
  PROVE  LET f == FirstUnescapedSpecialChar(p)
         IN  /\ f # 0 => f \in 1 .. Len(p) /\ p[f] \in Special
             /\ \A k \in 1 .. Len(p) : f = 0 \/ k < f => p[k] \notin Special \/ EscapesBefore(p, k) % 2 # 0
<1> DEFINE sp == {k \in DOMAIN p : p[k] \in Special /\ EscapesBefore(p, k) % 2 = 0}
           f == FirstUnescapedSpecialChar(p)
<1>1. DOMAIN p = 1 .. Len(p) /\ Len(p) \in Nat
  BY LenProperties
<1>2. f = IF sp = {} THEN 0 ELSE Min(sp)
  BY DEF FirstUnescapedSpecialChar
<1>3. CASE sp = {}
  BY <1>1, <1>2, <1>3
<1>4. CASE sp # {}
  <2>1. sp \in SUBSET Nat
    BY <1>1
  <2>2. PICK x \in sp : \A y \in sp : x <= y
    <3> HIDE DEF sp
    <3> QED BY <1>4, <2>1, NatMinimum
  <2>3. f = x
    <3> HIDE DEF sp
    <3> QED BY <1>2, <1>4, <2>1, <2>2, MinIsLeast
  <2>4. x \in 1 .. Len(p) /\ p[x] \in Special
    BY <1>1
  <2>5. ASSUME NEW k \in 1 .. Len(p), k < x PROVE p[k] \notin Special \/ EscapesBefore(p, k) % 2 # 0
    <3>1. k \notin sp
      BY <1>1, <2>2, <2>4, <2>5
    <3> QED BY <1>1, <3>1
  <2>6. x # 0
    BY <1>1, <2>4
  <2> HIDE DEF sp
  <2> QED BY <2>3, <2>4, <2>5, <2>6
<1> QED BY <1>3, <1>4

-----------------------------------------------------------------------------
(* The matcher                                                             *)

(* The asterisks end after the first of them.                              *)
LEMMA StarsEnd ==
  ASSUME NEW p, Len(p) \in Nat, NEW j \in 1 .. Len(p), p[j] = "*"
  PROVE  AfterStars(p, j) \in j + 1 .. Len(p) + 1
<1> DEFINE S == {k \in j .. (Len(p) + 1) : k = Len(p) + 1 \/ p[k] # "*"}
<1>1. S \in SUBSET Nat /\ Len(p) + 1 \in S /\ j \notin S
  OBVIOUS
<1>2. PICK x \in S : \A y \in S : x <= y
  <2> HIDE DEF S
  <2> QED BY <1>1, NatMinimum
<1>3. AfterStars(p, j) = x
  <2> HIDE DEF S
  <2>1. Min(S) = x
    BY <1>1, <1>2, MinIsLeast
  <2> QED BY <2>1 DEF AfterStars, S
<1>4. x \in j .. Len(p) + 1 /\ x # j
  BY <1>1
<1> QED BY <1>3, <1>4

(* What the rest of a pattern from j on matches depends on what is matched *)
(* by what is after j.                                                     *)
LEMMA RestAfter ==
  ASSUME NEW n, NEW p, Len(p) \in Nat, NEW j \in 1 .. Len(p) + 1, NEW i, NEW m, NEW g,
         \A r \in j + 1 .. Len(p) + 1 : m[r] = g[r]
  PROVE  RestMatches(n, p, j, i, m) = RestMatches(n, p, j, i, g)
<1>0. \A h : RestMatches(n, p, j, i, h) = TRUE \/ RestMatches(n, p, j, i, h) = FALSE
  BY DEF RestMatches
<1> SUFFICES RestMatches(n, p, j, i, m) <=> RestMatches(n, p, j, i, g)
  BY <1>0
<1>1. CASE j > Len(p)
  BY <1>1 DEF RestMatches
<1>2. CASE j <= Len(p) /\ p[j] = "*"
  <2> DEFINE r == AfterStars(p, j)
  <2>1. r \in j + 1 .. Len(p) + 1
    BY <1>2, StarsEnd
  <2> HIDE DEF r
  <2>2. r <= Len(p) => m[r] = g[r] /\ m[r + 1] = g[r + 1]
    <3>1. r <= Len(p) => r + 1 \in j + 1 .. Len(p) + 1
      BY <2>1
    <3> QED BY <2>1, <3>1
  <2> DEFINE F(h) ==
        \E across \in {CrossesSeparators(p, r - j, r)} :
           IF r > Len(p) THEN across \/ \A k \in i..Len(n) : n[k] # Sep
           ELSE \/ across /\ p[r] = Sep /\ h[r + 1][i]
                \/ \E k \in i..Len(n) :
                     /\ across \/ \A l \in i..(k - 1) : n[l] # Sep
                     /\ IF ~ across /\ p[r] = Sep THEN n[k] = Sep /\ h[r + 1][k + 1]
                                                  ELSE h[r][k]
  <2>3. \A h : RestMatches(n, p, j, i, h) <=> F(h)
    BY <1>2 DEF RestMatches, r
  <2>4. F(m) <=> F(g)
    <3>1. CASE r > Len(p)
      BY <3>1
    <3>2. CASE ~ (r > Len(p))
      <4>1. m[r] = g[r] /\ m[r + 1] = g[r + 1]
        BY <2>1, <2>2, <3>2
      <4> QED BY <4>1
    <3> QED BY <3>1, <3>2
  <2> HIDE DEF F
  <2> QED BY <2>3, <2>4
<1>3. CASE j <= Len(p) /\ p[j] # "*"
  <2>1. m[j + 1] = g[j + 1]
    BY <1>3
  <2>2. j < Len(p) => m[j + 2] = g[j + 2]
    BY <1>3
  <2> QED BY <1>3, <2>1, <2>2 DEF RestMatches
<1> QED BY <1>1, <1>2, <1>3

(* m tells what the rests of the pattern from d on match.                  *)
IsMatcher(m, n, p, d) ==
  m = [j \in d .. Len(p) + 1 |-> [i \in 1 .. Len(n) + 1 |-> RestMatches(n, p, j, i, m)]]

(* What it tells of the rest from j on.                                    *)
LEMMA MatcherAt ==
  ASSUME NEW m, NEW n, NEW p, NEW d, IsMatcher(m, n, p, d), NEW j \in d .. Len(p) + 1
  PROVE  /\ m[j] = [i \in 1 .. Len(n) + 1 |-> RestMatches(n, p, j, i, m)]
         /\ \A i \in 1 .. Len(n) + 1 : m[j][i] <=> RestMatches(n, p, j, i, m)
<1> DEFINE h == [k \in d .. Len(p) + 1 |-> [i \in 1 .. Len(n) + 1 |-> RestMatches(n, p, k, i, m)]]
<1>1. h[j] = [i \in 1 .. Len(n) + 1 |-> RestMatches(n, p, j, i, m)]
  OBVIOUS
<1>2. m = h
  BY DEF IsMatcher
<1> HIDE DEF h
<1>3. m[j] = [i \in 1 .. Len(n) + 1 |-> RestMatches(n, p, j, i, m)]
  BY <1>1, <1>2
<1> QED BY <1>3

(* There is such a function, however long the pattern.                     *)
LEMMA MatchersExist ==
  ASSUME NEW n, NEW p, Len(p) \in Nat
  PROVE  \E m : IsMatcher(m, n, p, 1)
<1> DEFINE L == Len(p)
           I == 1 .. Len(n) + 1
           P == {k \in Nat : k <= L => \E m : IsMatcher(m, n, p, L + 1 - k)}
           row(m, j) == [i \in I |-> RestMatches(n, p, j, i, m)]
<1>1. ASSUME NEW d \in 1 .. L + 1, NEW m, \A j \in d + 1 .. L + 1 : m[j] = row(m, j)
      PROVE  \E g : IsMatcher(g, n, p, d)
  <2> DEFINE g == [j \in d .. L + 1 |-> IF j = d THEN row(m, d) ELSE m[j]]
  <2>1. \A j \in d + 1 .. L + 1 : g[j] = m[j] /\ j \in d .. L + 1
    OBVIOUS
  <2>2. ASSUME NEW j \in d .. L + 1 PROVE g[j] = row(g, j)
    <3>1. j \in 1 .. L + 1 /\ \A r \in j + 1 .. L + 1 : m[r] = g[r]
      BY <2>1
    <3> HIDE DEF g
    <3>2. \A i : RestMatches(n, p, j, i, m) = RestMatches(n, p, j, i, g)
      BY <3>1, RestAfter
    <3>3. row(m, j) = row(g, j)
      BY <3>2
    <3>4. g[j] = row(m, j)
      <4>1. CASE j = d
        BY <4>1 DEF g
      <4>2. CASE j # d
        <5>1. j \in d + 1 .. L + 1
          BY <4>2
        <5> QED BY <1>1, <2>1, <5>1
      <4> QED BY <4>1, <4>2
    <3> QED BY <3>3, <3>4
  <2>3. g = [j \in d .. L + 1 |-> g[j]]
    OBVIOUS
  <2> HIDE DEF g
  <2>4. g = [j \in d .. L + 1 |-> row(g, j)]
    BY <2>2, <2>3
  <2> QED BY <2>4 DEF IsMatcher
<1>2. 0 \in P
  <2>1. L + 1 \in 1 .. L + 1 /\ (L + 1) + 1 .. L + 1 = {} /\ L + 1 - 0 = L + 1
    OBVIOUS
  <2>2. \E g : IsMatcher(g, n, p, L + 1)
    <3> HIDE DEF row, L
    <3>1. \A j \in (L + 1) + 1 .. L + 1 : << >>[j] = row(<< >>, j)
      BY <2>1
    <3> QED BY <1>1, <2>1, <3>1
  <2> QED BY <2>1, <2>2
<1>3. ASSUME NEW k \in P PROVE k + 1 \in P
  <2> SUFFICES ASSUME k + 1 <= L PROVE \E m : IsMatcher(m, n, p, L + 1 - (k + 1))
    OBVIOUS
  <2> DEFINE d == L + 1 - (k + 1)
  <2>1. k \in Nat /\ d \in 1 .. L + 1 /\ d + 1 = L + 1 - k /\ k <= L
    OBVIOUS
  <2>2. PICK m : IsMatcher(m, n, p, d + 1)
    BY <2>1
  <2> HIDE DEF d
  <2>3. \A j \in d + 1 .. L + 1 : m[j] = row(m, j)
    BY <2>2, MatcherAt
  <2>4. \E g : IsMatcher(g, n, p, d)
    <3> HIDE DEF row, L
    <3> QED BY <1>1, <2>1, <2>3
  <2> QED BY <2>4 DEF d
<1>4. P = Nat
  <2>1. P \in SUBSET Nat
    OBVIOUS
  <2> HIDE DEF P
  <2> QED BY <1>2, <1>3, <2>1, NatSetInduction
<1>5. L \in P /\ L + 1 - L = 1
  BY <1>4
<1> QED BY <1>5

(* A name is matched if the pattern from the first character on matches it *)
(* from the first on.                                                      *)
LEMMA MatchesIs ==
  ASSUME NEW n, NEW p, Len(p) \in Nat, Len(n) \in Nat
  PROVE  \E m : IsMatcher(m, n, p, 1) /\ (Matches(n, p) <=> m[1][1])
<1> DEFINE K(m) == IsMatcher(m, n, p, 1)
           c == CHOOSE m : K(m)
<1>1. Matches(n, p) <=> c[1][1]
  BY DEF Matches, IsMatcher
<1>2. \E m : K(m)
  BY MatchersExist
<1> HIDE DEF K
<1>3. K(c)
  BY <1>2
<1> HIDE DEF c
<1> QED BY <1>1, <1>3 DEF K

(* One character more of a sequence.                                       *)
LEMMA UptoNext ==
  ASSUME NEW S, NEW s \in Seq(S), NEW i \in 1 .. Len(s)
  PROVE  Append(Upto(s, i - 1), s[i]) = Upto(s, i)
<1>1. Len(s) \in Nat /\ s[i] \in S
  BY LenProperties, ElementOfSeq
<1>2. /\ 1 \in 1 .. Len(s) + 1 /\ i - 1 \in 1 - 1 .. Len(s) /\ i \in 1 - 1 .. Len(s)
      /\ i - 1 + 1 - 1 = i - 1 /\ i + 1 - 1 = i /\ \A k \in 1 .. i : 1 + k - 1 = k
  BY <1>1
<1> DEFINE u == SubSeq(s, 1, i - 1)
           v == SubSeq(s, 1, i)
           w == Append(u, s[i])
<1>3. u \in Seq(S) /\ Len(u) = i - 1 /\ \A k \in 1 .. i - 1 : u[k] = s[k]
  <2>1. /\ u \in Seq(S) /\ Len(u) = i - 1 + 1 - 1
        /\ \A k \in 1 .. i - 1 + 1 - 1 : u[k] = s[1 + k - 1]
    BY <1>2, PartOf
  <2> QED BY <1>2, <2>1
<1>4. v \in Seq(S) /\ Len(v) = i /\ \A k \in 1 .. i : v[k] = s[k]
  <2>1. /\ v \in Seq(S) /\ Len(v) = i + 1 - 1
        /\ \A k \in 1 .. i + 1 - 1 : v[k] = s[1 + k - 1]
    BY <1>2, PartOf
  <2> QED BY <1>2, <2>1
<1> HIDE DEF u, v
<1>5. /\ w \in Seq(S) /\ Len(w) = Len(u) + 1 /\ \A k \in 1 .. Len(u) : w[k] = u[k]
      /\ w[Len(u) + 1] = s[i]
  BY <1>1, <1>3, AppendProperties
<1> HIDE DEF w
<1>6. Len(w) = Len(v) /\ \A k \in 1 .. Len(w) : w[k] = v[k]
  BY <1>3, <1>4, <1>5
<1>7. w = v
  BY <1>4, <1>5, <1>6, SeqEqual
<1> QED BY <1>7 DEF w, u, v, Upto

(* What is left of a sequence if all is kept.                              *)
LEMMA GatheredAll ==
  ASSUME NEW S, NEW s \in Seq(S), NEW keep, 1 .. Len(s) \subseteq keep
  PROVE  Gathered(s, keep) = s
<1> DEFINE n == Len(s)
<1>0. n \in Nat
  BY LenProperties
<1>1. PICK f : Keeps(f, s, keep, n) /\ Gathered(s, keep) = f[n]
  BY <1>0, GatheredIs
<1> DEFINE P == {k \in Nat : k <= n => f[k] = Upto(s, k)}
<1>2. 0 \in P
  <2>1. f[0] = << >>
    BY <1>0, <1>1, KeepsAt
  <2>2. SubSeq(s, 1, 0) = << >>
    BY SubSeqEmpty
  <2> QED BY <2>1, <2>2 DEF Upto
<1>3. ASSUME NEW k \in P PROVE k + 1 \in P
  <2> SUFFICES ASSUME k + 1 <= n PROVE f[k + 1] = Upto(s, k + 1)
    OBVIOUS
  <2>1. k \in Nat /\ k + 1 \in 0 .. n /\ k + 1 \in 1 .. n /\ (k + 1) - 1 = k /\ k + 1 # 0 /\ k <= n
    BY <1>0
  <2>2. f[k + 1] = Append(f[k], s[k + 1])
    <3> HIDE DEF n
    <3>1. f[k + 1] = IF k + 1 = 0 THEN << >>
                     ELSE IF k + 1 \in keep THEN Append(f[(k + 1) - 1], s[k + 1]) ELSE f[(k + 1) - 1]
      BY <1>1, <2>1, KeepsAt
    <3>2. k + 1 \in keep
      BY <2>1 DEF n
    <3> QED BY <2>1, <3>1, <3>2
  <2>3. f[k] = Upto(s, (k + 1) - 1)
    BY <2>1
  <2>4. Append(Upto(s, (k + 1) - 1), s[k + 1]) = Upto(s, k + 1)
    BY <2>1, UptoNext
  <2> QED BY <2>2, <2>3, <2>4
<1>4. P = Nat
  <2>1. P \in SUBSET Nat
    OBVIOUS
  <2> HIDE DEF P
  <2> QED BY <1>2, <1>3, <2>1, NatSetInduction
<1>5. f[n] = Upto(s, n)
  BY <1>0, <1>4
<1> QED BY <1>1, <1>5, SubSeqFull DEF Upto

(* A name without an escape is a pattern for itself.                       *)
LEMMA PlainUnescaped ==
  ASSUME NEW S, NEW p \in Seq(S), ~ HasEscape(p)
  PROVE  UnescapePattern(p) = p
<1> DEFINE keep == {k \in DOMAIN p : p[k] # Escape \/ EscapesBefore(p, k) % 2 = 1}
<1>1. 1 .. Len(p) \subseteq keep
  <2>1. DOMAIN p = 1 .. Len(p)
    BY LenProperties
  <2> QED BY <2>1 DEF HasEscape, Contains
<1>2. UnescapePattern(p) = Gathered(p, keep)
  BY DEF UnescapePattern
<1> HIDE DEF keep
<1> QED BY <1>1, <1>2, GatheredAll

(* After an escape that is not escaped the next character is, and an even  *)
(* number of escapes is before the one after it.                           *)
LEMMA EscapePairs ==
  ASSUME NEW p, NEW k \in Nat \ {0}
  PROVE  /\ EscapesBefore(p, 1) % 2 = 0
         /\ EscapesBefore(p, k) % 2 \in {0, 1}
         /\ p[k] # Escape => EscapesBefore(p, k + 1) % 2 = 0
         /\ p[k] = Escape => (EscapesBefore(p, k + 1) % 2 = 0 <=> EscapesBefore(p, k) % 2 = 1)
<1> DEFINE a == EscapesBefore(p, k)
           b == EscapesBefore(p, k + 1)
<1>1. EscapesBefore(p, 1) = 0 /\ a \in Nat /\ b = IF p[k] = Escape THEN a + 1 ELSE 0
  BY EscapesNext
<1> HIDE DEF a, b
<1>2. \A x \in Nat : x % 2 \in {0, 1} /\ ((x + 1) % 2 = 0 <=> x % 2 = 1)
  OBVIOUS
<1>3. 0 % 2 = 0
  OBVIOUS
<1> QED BY <1>1, <1>2, <1>3 DEF a, b

(* An even number of escapes is before the position k of a pattern: what   *)
(* is there is not escaped.                                                *)
Even(p, k) == EscapesBefore(p, k) % 2 = 0

LEMMA EvenIs ==
  ASSUME NEW p, NEW n \in Nat
  PROVE  /\ Even(p, 1)
         /\ Even(p, n + 1) <=> EscapesBefore(p, n + 1) % 2 # 1
         /\ \A k \in 1 .. n : /\ Even(p, k) <=> EscapesBefore(p, k) % 2 # 1
                              /\ p[k] # Escape => Even(p, k + 1)
                              /\ p[k] = Escape => (Even(p, k + 1) <=> ~ Even(p, k))
<1>1. n + 1 \in Nat \ {0} /\ \A k \in 1 .. n : k \in Nat \ {0}
  OBVIOUS
<1>2. EscapesBefore(p, 1) % 2 = 0 /\ EscapesBefore(p, n + 1) % 2 \in {0, 1}
  BY <1>1, EscapePairs
<1>3. ASSUME NEW k \in 1 .. n
      PROVE  /\ EscapesBefore(p, k) % 2 \in {0, 1}
             /\ p[k] # Escape => EscapesBefore(p, k + 1) % 2 = 0
             /\ p[k] = Escape => (EscapesBefore(p, k + 1) % 2 = 0 <=> EscapesBefore(p, k) % 2 = 1)
  BY <1>1, EscapePairs
<1> QED BY <1>2, <1>3 DEF Even

(* f has a pattern without its escapes, as far as it goes.                 *)
Unescapes(f, p) ==
  /\ f[0] = << >>
  /\ \A k \in 1 .. Len(p) : f[k] = IF p[k] = Escape /\ Even(p, k) THEN f[k - 1] ELSE Append(f[k - 1], p[k])

LEMMA UnescapedIs ==
  ASSUME NEW T, NEW p \in Seq(T)
  PROVE  \E f : Unescapes(f, p) /\ UnescapePattern(p) = f[Len(p)]
<1> DEFINE L == Len(p)
           keep == {k \in DOMAIN p : p[k] # Escape \/ EscapesBefore(p, k) % 2 = 1}
<1>0. L \in Nat /\ DOMAIN p = 1 .. L
  BY LenProperties
<1>1. PICK f : Keeps(f, p, keep, L) /\ Gathered(p, keep) = f[L]
  BY <1>0, GatheredIs
<1>2. UnescapePattern(p) = f[L]
  BY <1>1 DEF UnescapePattern
<1>3. \A k \in 1 .. L : Even(p, k) <=> EscapesBefore(p, k) % 2 # 1
  BY <1>0, EvenIs
<1>4. \A k \in 1 .. L : k \in keep <=> ~ (p[k] = Escape /\ Even(p, k))
  BY <1>0, <1>3
<1>5. f[0] = << >> /\ \A k \in 1 .. L : f[k] = IF k \in keep THEN Append(f[k - 1], p[k]) ELSE f[k - 1]
  <2> HIDE DEF keep
  <2>1. 0 \in 0 .. L /\ \A k \in 1 .. L : k \in 0 .. L /\ k # 0
    BY <1>0
  <2> HIDE DEF L
  <2> QED BY <1>1, <2>1, KeepsAt
<1> HIDE DEF keep
<1> QED BY <1>2, <1>4, <1>5 DEF Unescapes

(* A pattern without special characters matches only the name it is when   *)
(* its escapes are taken away.                                             *)
LEMMA LiteralMatches ==
  ASSUME NEW S, NEW T, NEW n \in Seq(S), NEW p \in Seq(T),
         FirstUnescapedSpecialChar(p) = 0, Matches(n, p)
  PROVE  UnescapePattern(p) = n
<1> DEFINE L == Len(p)
           N == Len(n)
<1>0. L \in Nat /\ N \in Nat /\ DOMAIN p = 1 .. L
  BY LenProperties
<1>1. PICK f : Unescapes(f, p) /\ UnescapePattern(p) = f[L]
  BY UnescapedIs
<1>2. f[0] = << >> /\ \A k \in 1 .. L : f[k] = IF p[k] = Escape /\ Even(p, k) THEN f[k - 1] ELSE Append(f[k - 1], p[k])
  BY <1>1 DEF Unescapes
<1>3. PICK m : IsMatcher(m, n, p, 1) /\ m[1][1]
  BY <1>0, MatchesIs
<1>4. \A k \in 1 .. L : Even(p, k) => p[k] \notin Special
  BY FirstSpecial DEF Even
<1>5. /\ Even(p, 1)
      /\ \A k \in 1 .. L : /\ p[k] # Escape => Even(p, k + 1)
                           /\ p[k] = Escape => (Even(p, k + 1) <=> ~ Even(p, k))
  BY <1>0, EvenIs
<1> DEFINE A(k) == \E i \in 1 .. N + 1 : m[k + 1][i] /\ f[k] = Upto(n, i - 1)
           Q(k) == /\ Even(p, k + 1) => A(k)
                   /\ ~ Even(p, k + 1) => k >= 1 /\ Even(p, k) /\ p[k] = Escape /\ A(k - 1)
           P == {k \in Nat : k <= L => Q(k)}
<1>8. 0 \in P
  <2>1. Upto(n, 0) = << >>
    BY SubSeqEmpty DEF Upto
  <2>2. m[0 + 1][1] /\ 1 \in 1 .. N + 1 /\ f[0] = Upto(n, 1 - 1)
    BY <1>0, <1>2, <1>3, <2>1
  <2>3. A(0) /\ Even(p, 0 + 1)
    BY <1>5, <2>2
  <2> HIDE DEF A
  <2> QED BY <2>3
<1>9. ASSUME NEW j \in 1 .. L, NEW i \in 1 .. N + 1, m[j][i]
      PROVE  RestMatches(n, p, j, i, m)
  <2> j \in 1 .. Len(p) + 1
    BY <1>0
  <2> QED BY <1>3, <1>9, MatcherAt
<1>10. ASSUME NEW i \in 1 .. N PROVE Append(Upto(n, i - 1), n[i]) = Upto(n, (i + 1) - 1)
  <2>1. (i + 1) - 1 = i
    BY <1>0
  <2> QED BY <2>1, UptoNext
<1>11. ASSUME NEW k \in P PROVE k + 1 \in P
  <2> SUFFICES ASSUME k + 1 <= L PROVE Q(k + 1)
    OBVIOUS
  <2> DEFINE j == k + 1
  <2>1. k \in Nat /\ j \in 1 .. L /\ j - 1 = k /\ Q(k) /\ j >= 1 /\ j \in Nat
    BY <1>0
  <2>2. CASE Even(p, j) /\ p[j] = Escape
    <3>1. ~ Even(p, j + 1) /\ A(j - 1)
      BY <1>5, <2>1, <2>2
    <3> HIDE DEF j, A
    <3> QED BY <2>1, <2>2, <3>1 DEF j
  <2>3. CASE Even(p, j) /\ p[j] # Escape
    <3>1. PICK i \in 1 .. N + 1 : m[k + 1][i] /\ f[k] = Upto(n, i - 1)
      BY <2>1, <2>3
    <3>2. RestMatches(n, p, j, i, m)
      BY <1>9, <2>1, <3>1
    <3>3. p[j] # "*" /\ p[j] # "?"
      BY <1>4, <2>1, <2>3 DEF Special
    <3>4. i <= N /\ n[i] = p[j] /\ m[j + 1][i + 1]
      <4>1. ~ (j > Len(p))
        BY <1>0, <2>1
      <4> QED BY <2>3, <3>2, <3>3, <4>1 DEF RestMatches
    <3>5. f[j] = Append(f[k], p[j])
      BY <1>2, <2>1, <2>3
    <3>6. f[j] = Upto(n, (i + 1) - 1)
      <4>1. i \in 1 .. N
        BY <1>0, <3>4
      <4> QED BY <1>10, <3>1, <3>4, <3>5, <4>1
    <3>7. i + 1 \in 1 .. N + 1
      BY <1>0, <3>4
    <3>8. A(j)
      BY <3>4, <3>6, <3>7
    <3>9. Even(p, j + 1)
      BY <1>5, <2>1, <2>3
    <3> HIDE DEF A, j
    <3> QED BY <3>8, <3>9 DEF j
  <2>4. CASE ~ Even(p, j)
    <3>1. k \in 1 .. L /\ Even(p, k) /\ p[k] = Escape /\ A(k - 1)
      <4> HIDE DEF A
      <4>1. k >= 1 /\ Even(p, k) /\ p[k] = Escape /\ A(k - 1)
        BY <2>1, <2>4
      <4> QED BY <1>0, <2>1, <4>1
    <3>2. PICK i \in 1 .. N + 1 : m[(k - 1) + 1][i] /\ f[k - 1] = Upto(n, i - 1)
      BY <3>1
    <3>3. m[k][i]
      <4>1. (k - 1) + 1 = k
        BY <2>1
      <4> QED BY <3>2, <4>1
    <3>4. RestMatches(n, p, k, i, m)
      BY <1>9, <3>1, <3>3
    <3>5. i <= N /\ n[i] = p[k + 1] /\ m[k + 2][i + 1]
      <4>1. ~ (k > Len(p)) /\ p[k] # "*"
        BY <1>0, <3>1 DEF Escape
      <4> QED BY <3>1, <3>4, <4>1 DEF RestMatches
    <3>6. f[j] = Append(f[k - 1], p[j])
      <4>1. f[k] = f[k - 1]
        BY <1>2, <3>1
      <4>2. f[j] = Append(f[j - 1], p[j])
        BY <1>2, <2>1, <2>4
      <4> QED BY <2>1, <4>1, <4>2
    <3>7. f[j] = Upto(n, (i + 1) - 1)
      <4>1. i \in 1 .. N
        BY <1>0, <3>5
      <4> QED BY <1>10, <3>2, <3>5, <3>6, <4>1
    <3>8. i + 1 \in 1 .. N + 1 /\ k + 2 = j + 1
      BY <1>0, <2>1, <3>5
    <3>9. A(j)
      BY <3>5, <3>7, <3>8
    <3>10. Even(p, j + 1)
      BY <1>5, <2>1, <2>4
    <3> HIDE DEF A, j
    <3> QED BY <3>9, <3>10 DEF j
  <2> HIDE DEF Q
  <2> QED BY <2>2, <2>3, <2>4
<1>12. P = Nat
  <2>1. P \in SUBSET Nat
    OBVIOUS
  <2> HIDE DEF P
  <2> QED BY <1>8, <1>11, <2>1, NatSetInduction
<1>13. Q(L)
  <2> HIDE DEF Q
  <2> QED BY <1>0, <1>12
<1>14. CASE Even(p, L + 1)
  <2>1. PICK i \in 1 .. N + 1 : m[L + 1][i] /\ f[L] = Upto(n, i - 1)
    BY <1>13, <1>14
  <2>2. RestMatches(n, p, L + 1, i, m)
    <3> L + 1 \in 1 .. Len(p) + 1
      BY <1>0
    <3> QED BY <1>3, <2>1, MatcherAt
  <2>3. i > N
    <3>1. L + 1 > Len(p)
      BY <1>0
    <3> QED BY <2>2, <3>1 DEF RestMatches
  <2>4. i - 1 = N
    BY <1>0, <2>3
  <2>5. Upto(n, N) = n
    BY SubSeqFull DEF Upto
  <2> QED BY <1>1, <2>1, <2>4, <2>5
<1>15. CASE ~ Even(p, L + 1)
  <2>1. L \in 1 .. L /\ p[L] = Escape /\ A(L - 1)
    BY <1>0, <1>13, <1>15
  <2>2. PICK i \in 1 .. N + 1 : m[(L - 1) + 1][i]
    BY <2>1
  <2>3. m[L][i]
    <3>1. (L - 1) + 1 = L
      BY <1>0
    <3> QED BY <2>2, <3>1
  <2>4. RestMatches(n, p, L, i, m)
    BY <1>9, <2>1, <2>3
  <2>5. ~ (L > Len(p)) /\ ~ (L < Len(p)) /\ p[L] # "*"
    BY <1>0, <2>1 DEF Escape
  <2> QED BY <2>1, <2>4, <2>5 DEF RestMatches
<1> QED BY <1>14, <1>15

(* A pattern without special characters matches the name it is when its    *)
(* escapes are taken away, if it does not end with one.                    *)
LEMMA LiteralIsMatched ==
  ASSUME NEW T, NEW p \in Seq(T), FirstUnescapedSpecialChar(p) = 0, ~ ReadsPastEnd(p)
  PROVE  Matches(UnescapePattern(p), p)
<1> DEFINE L == Len(p)
<1>0. L \in Nat /\ DOMAIN p = 1 .. L
  BY LenProperties
<1>1. PICK f : Unescapes(f, p) /\ UnescapePattern(p) = f[L]
  BY UnescapedIs
<1> DEFINE n == f[L]
           N == Len(n)
<1>2. /\ Even(p, L + 1)
      /\ \A k \in 1 .. L : /\ p[k] # Escape => Even(p, k + 1)
                           /\ p[k] = Escape => (Even(p, k + 1) <=> ~ Even(p, k))
  BY <1>0, EvenIs DEF ReadsPastEnd
<1>3. \A k \in 1 .. L : Even(p, k) => p[k] # "*" /\ p[k] # "?"
  <2>1. \A k \in 1 .. L : p[k] \notin Special \/ EscapesBefore(p, k) % 2 # 0
    BY FirstSpecial
  <2> QED BY <2>1 DEF Even, Special
<1>4. \A k \in 0 .. L : f[k] \in Seq(T) /\ Len(f[k]) \in Nat
  <2> DEFINE P == {k \in Nat : f[k] \in Seq(T)}
  <2>1. 0 \in P
    BY <1>1, EmptySeq DEF Unescapes
  <2>2. ASSUME NEW k \in 0 .. L - 1, k \in P PROVE k + 1 \in P
    <3>1. k + 1 \in 1 .. L /\ (k + 1) - 1 = k /\ k + 1 \in Nat
      BY <1>0
    <3>2. f[k + 1] = f[k] \/ f[k + 1] = Append(f[k], p[k + 1])
      BY <1>1, <3>1 DEF Unescapes
    <3>3. p[k + 1] \in T /\ f[k] \in Seq(T)
      BY <2>2, <3>1, ElementOfSeq
    <3>4. Append(f[k], p[k + 1]) \in Seq(T)
      BY <3>3, AppendProperties
    <3> QED BY <3>1, <3>2, <3>3, <3>4
  <2> HIDE DEF P
  <2>3. \A k \in 0 .. L : k \in P
    BY <1>0, <2>1, <2>2, UptoInduction
  <2> QED BY <2>3, LenProperties DEF P
<1>5. N \in Nat /\ L \in 0 .. L
  BY <1>0, <1>4
<1> HIDE DEF L, n
<1>6. PICK m : IsMatcher(m, n, p, 1) /\ (Matches(n, p) <=> m[1][1])
  <2>1. Len(p) \in Nat /\ Len(n) \in Nat
    BY <1>0, <1>5 DEF L
  <2> QED BY <2>1, MatchesIs
<1>7. ASSUME NEW j \in 1 .. L + 1, NEW i \in 1 .. N + 1, RestMatches(n, p, j, i, m)
      PROVE  m[j][i]
  BY <1>6, <1>7, MatcherAt DEF L
<1> DEFINE Pre(k) == Len(f[k]) <= N /\ \A x \in 1 .. Len(f[k]) : f[k][x] = n[x]
           D(k) == Pre(k) /\ (Even(p, k + 1) => m[k + 1][Len(f[k]) + 1])
           P == {d \in Nat : \A k \in 0 .. L : k + d >= L => D(k)}
<1>8. D(L)
  <2>1. Pre(L) /\ Len(f[L]) = N
    BY <1>5 DEF n
  <2>2. L + 1 \in 1 .. L + 1 /\ N + 1 \in 1 .. N + 1 /\ L + 1 > Len(p) /\ N + 1 > Len(n)
    BY <1>0, <1>5 DEF L
  <2>3. RestMatches(n, p, L + 1, N + 1, m)
    BY <2>2 DEF RestMatches
  <2> HIDE DEF Pre
  <2> QED BY <1>7, <2>1, <2>2, <2>3
<1>9. ASSUME NEW k \in 0 .. L - 1, D(k + 1), k + 2 <= L => D(k + 2)
      PROVE  D(k)
  <2> DEFINE j == k + 1
             i == Len(f[k]) + 1
  <2>1. j \in 1 .. L /\ k \in 0 .. L /\ j \in 0 .. L /\ j - 1 = k /\ j + 1 = k + 2 /\ ~ (j > Len(p))
        /\ j \in 1 .. L + 1 /\ j \in Nat
    BY <1>0 DEF L
  <2>2. /\ f[k] \in Seq(T) /\ Len(f[k]) \in Nat /\ i \in Nat /\ p[j] \in T
        /\ f[j] = IF p[j] = Escape /\ Even(p, j) THEN f[k] ELSE Append(f[k], p[j])
    <3>1. f[j] = IF p[j] = Escape /\ Even(p, j) THEN f[j - 1] ELSE Append(f[j - 1], p[j])
      BY <1>1, <2>1 DEF Unescapes, L
    <3>2. p[j] \in T
      BY <2>1, ElementOfSeq DEF L
    <3> QED BY <1>4, <2>1, <3>1, <3>2
  <2>3. /\ Len(Append(f[k], p[j])) = i /\ Append(f[k], p[j])[i] = p[j]
        /\ \A x \in 1 .. Len(f[k]) : Append(f[k], p[j])[x] = f[k][x]
    BY <2>2, AppendProperties
  <2>4. Pre(j)
    BY <1>9
  <2> HIDE DEF j
  <2>5. Pre(k)
    <3>1. CASE f[j] = f[k]
      BY <2>4, <3>1
    <3>2. CASE f[j] = Append(f[k], p[j])
      <4>1. Len(f[k]) <= N
        BY <1>5, <2>2, <2>3, <2>4, <3>2
      <4>2. \A x \in 1 .. Len(f[k]) : x \in 1 .. i
        BY <2>2
      <4> QED BY <2>3, <2>4, <3>2, <4>1, <4>2
    <3> QED BY <2>2, <3>1, <3>2
  <2>6. ASSUME Even(p, j) PROVE m[j][i]
    <3>1. CASE p[j] # Escape
      <4>1. f[j] = Append(f[k], p[j]) /\ Even(p, j + 1)
        BY <1>2, <2>1, <2>2, <3>1
      <4>2. i \in 1 .. N /\ n[i] = p[j] /\ i \in 1 .. i
        <5>1. i \in 1 .. i /\ i >= 1
          BY <2>2
        <5> HIDE DEF i
        <5>2. Len(f[j]) = i /\ f[j][i] = p[j]
          BY <2>3, <4>1
        <5> QED BY <1>5, <2>2, <2>4, <5>1, <5>2
      <4>3. m[j + 1][i + 1]
        BY <1>9, <2>3, <4>1 DEF j
      <4>4. p[j] # "*" /\ p[j] # "?"
        BY <1>3, <2>1, <2>6
      <4>5. RestMatches(n, p, j, i, m)
        BY <2>1, <3>1, <4>2, <4>3, <4>4 DEF RestMatches
      <4>6. i \in 1 .. N + 1
        BY <1>5, <4>2
      <4> QED BY <1>7, <2>1, <4>5, <4>6
    <3>2. CASE p[j] = Escape
      <4>1. f[j] = f[k] /\ ~ Even(p, j + 1)
        BY <1>2, <2>1, <2>2, <2>6, <3>2
      <4>2. j # L /\ j + 1 \in 1 .. L /\ j < Len(p) /\ (j + 1) - 1 = j /\ j + 1 <= L /\ (j + 1) + 1 = j + 2
        <5>1. j # L
          BY <1>2, <4>1
        <5>2. L = Len(p) /\ L \in Nat /\ j \in 1 .. L
          BY <1>0, <2>1 DEF L
        <5>3. j # L /\ j + 1 \in 1 .. L /\ j < L /\ (j + 1) - 1 = j /\ j + 1 <= L /\ (j + 1) + 1 = j + 2
          BY <5>1, <5>2
        <5> QED BY <5>2, <5>3
      <4>3. Even(p, j + 2)
        BY <1>2, <4>1, <4>2
      <4>4. f[j + 1] = Append(f[k], p[j + 1])
        <5>1. f[j + 1] = IF p[j + 1] = Escape /\ Even(p, j + 1) THEN f[(j + 1) - 1] ELSE Append(f[(j + 1) - 1], p[j + 1])
          BY <1>1, <4>2 DEF Unescapes, L
        <5> QED BY <4>1, <4>2, <5>1
      <4>5. Len(f[j + 1]) = i /\ f[j + 1][i] = p[j + 1]
        <5>1. p[j + 1] \in T
          BY <4>2, ElementOfSeq DEF L
        <5> QED BY <2>2, <4>4, <5>1, AppendProperties
      <4>6. Pre(j + 1) /\ m[j + 2][i + 1]
        <5>1. D(k + 2)
          BY <1>9, <2>1, <4>2
        <5> HIDE DEF Pre
        <5>2. k + 2 = j + 1 /\ (k + 2) + 1 = j + 2
          BY <2>1
        <5> QED BY <4>3, <4>5, <5>1, <5>2
      <4>7. i \in 1 .. N /\ n[i] = p[j + 1]
        <5>1. i \in 1 .. Len(f[j + 1])
          BY <2>2, <4>5
        <5>2. Len(f[j + 1]) <= N /\ \A x \in 1 .. Len(f[j + 1]) : f[j + 1][x] = n[x]
          BY <4>6
        <5>3. i <= N /\ n[i] = f[j + 1][i]
          BY <4>5, <5>1, <5>2
        <5> QED BY <1>5, <2>2, <4>5, <5>3
      <4>8. RestMatches(n, p, j, i, m)
        BY <2>1, <3>2, <4>2, <4>6, <4>7 DEF RestMatches, Escape
      <4>9. i \in 1 .. N + 1
        BY <1>5, <4>7
      <4> QED BY <1>7, <2>1, <4>8, <4>9
    <3> QED BY <3>1, <3>2
  <2> HIDE DEF Pre
  <2> QED BY <2>5, <2>6 DEF j
<1>10. P = Nat
  <2>1. P \in SUBSET Nat
    OBVIOUS
  <2>2. 0 \in P
    <3> HIDE DEF D
    <3>1. \A k \in 0 .. L : k + 0 >= L => k = L
      BY <1>0
    <3> QED BY <1>8, <3>1
  <2>3. ASSUME NEW d \in P PROVE d + 1 \in P
    <3> HIDE DEF D
    <3> SUFFICES ASSUME NEW k \in 0 .. L, k + (d + 1) >= L PROVE D(k)
      OBVIOUS
    <3>1. CASE k + d >= L
      BY <2>3, <3>1
    <3>2. CASE ~ (k + d >= L)
      <4>1. k \in 0 .. L - 1 /\ k + 1 \in 0 .. L /\ (k + 1) + d >= L
            /\ (k + 2 <= L => k + 2 \in 0 .. L /\ (k + 2) + d >= L)
        BY <1>0, <2>3, <3>2
      <4>2. D(k + 1) /\ (k + 2 <= L => D(k + 2))
        BY <2>3, <4>1
      <4> QED BY <1>9, <4>1, <4>2
    <3> QED BY <3>1, <3>2
  <2> HIDE DEF P
  <2> QED BY <2>1, <2>2, <2>3, NatSetInduction
<1>11. D(0)
  <2>1. L \in P
    <3> HIDE DEF P
    <3> QED BY <1>0, <1>10
  <2>2. 0 \in 0 .. L /\ 0 + L >= L
    BY <1>0
  <2> HIDE DEF D
  <2> QED BY <2>1, <2>2
<1>12. m[1][1]
  <2>1. Len(f[0]) + 1 = 1 /\ Even(p, 0 + 1)
    <3>1. Even(p, 1) /\ Len(<< >>) = 0
      BY <1>0, EvenIs
    <3> QED BY <1>1, <3>1 DEF Unescapes
  <2> QED BY <1>11, <2>1
<1> QED BY <1>1, <1>6, <1>12 DEF n, L

(* The directory of a pattern: what is before the last separator that is   *)
(* before its first special character.                                     *)
IsTop(i, s) ==
  LET F == FirstUnescapedSpecialChar(i)
  IN  /\ F \in 1 .. Len(i) /\ s \in 1 .. F
      /\ i[s] = Sep /\ \A k \in s + 1 .. F : i[k] # Sep
      /\ TopDir(i) = IF s = 1 THEN <<Sep>> ELSE Upto(i, s - 1)
      /\ \A k \in 1 .. Len(i) : k < F => i[k] \notin Special \/ EscapesBefore(i, k) % 2 # 0

LEMMA TopDirIs ==
  ASSUME sc \in DOMAIN Scenarios, NEW i \in Patterns, FirstUnescapedSpecialChar(i) # 0
  PROVE  \E s : IsTop(i, s)
<1> DEFINE F == FirstUnescapedSpecialChar(i)
           seps == {k \in 1 .. F : i[k] = Sep}
<1>1. i \in Seq(ToSet(i)) /\ Len(i) \in Nat \ {0} /\ i[1] = Sep
  BY PatternIsSequence
<1>2. F \in 1 .. Len(i) /\ \A k \in 1 .. Len(i) : k < F => i[k] \notin Special \/ EscapesBefore(i, k) % 2 # 0
  BY <1>1, FirstSpecial
<1> HIDE DEF F
<1>3. PICK sep \in seps : \A k \in seps : k <= sep
  <2>1. seps \in SUBSET Nat /\ seps # {} /\ F \in Nat /\ \A k \in seps : k <= F
    BY <1>1, <1>2
  <2> HIDE DEF seps
  <2> QED BY <2>1, MaxIsGreatest
<1>4. sep \in 1 .. F /\ i[sep] = Sep /\ \A k \in sep + 1 .. F : i[k] # Sep
  <2>1. \A k \in sep + 1 .. F : k \in 1 .. F /\ ~ (k <= sep)
    BY <1>2
  <2> QED BY <1>3, <2>1
<1>5. TopDir(i) = IF sep = 1 THEN <<Sep>> ELSE Upto(i, sep - 1)
  <2> DEFINE G(k) == k \in 1 .. F /\ i[k] = Sep /\ \A l \in (k + 1) .. F : i[l] # Sep
  <2>1. \A k : G(k) => k = sep
    <3>1. ASSUME NEW k, G(k) PROVE k = sep
      <4>1. k \in seps
        BY <3>1
      <4>2. k <= sep /\ ~ (sep \in k + 1 .. F)
        BY <1>3, <1>4, <3>1, <4>1
      <4> QED BY <1>2, <1>4, <4>1, <4>2
    <3> QED BY <3>1
  <2>2. sep = CHOOSE k \in 1 .. F : i[k] = Sep /\ \A l \in (k + 1) .. F : i[l] # Sep
    BY <1>4, <2>1
  <2> QED BY <2>2 DEF TopDir, F
<1>6. IsTop(i, sep)
  BY <1>2, <1>4, <1>5 DEF IsTop, F
<1> QED BY <1>6

(* Until its first special character a pattern without escapes matches what*)
(* it is: what it matches is below its top directory.                      *)
LEMMA TopMatches ==
  ASSUME sc \in DOMAIN Scenarios, NEW i \in Patterns, FirstUnescapedSpecialChar(i) # 0, ~ EscapedDir(i),
         NEW p, IsName(p), p # <<Sep>>, Matches(p, i)
  PROVE  \E n \in DOMAIN p : TopDir(i) = Upto(p, n) /\ IsBelow(p, Upto(p, n))
<1> DEFINE F == FirstUnescapedSpecialChar(i)
           S == ToSet(i) \union ToSet(p)
           L == Len(p)
<1>1. i \in Seq(S) /\ p \in Seq(S) /\ Len(i) \in Nat \ {0} /\ i[1] = Sep /\ L \in Nat /\ L >= 1 /\ p[1] = Sep
      /\ DOMAIN p = 1 .. L
  <2>1. i \in Seq(ToSet(i)) /\ p \in Seq(ToSet(p))
    BY PatternIsSequence, NameIsSequence
  <2>2. i \in Seq(S) /\ p \in Seq(S)
    BY <2>1, SeqMonotonic
  <2> QED BY <2>2, PatternIsSequence, NameIsSequence
<1> HIDE DEF S
<1>0. PICK sep : IsTop(i, sep)
  BY TopDirIs
<1>2. F \in 1 .. Len(i) /\ \A k \in 1 .. Len(i) : k < F => i[k] \notin Special \/ EscapesBefore(i, k) % 2 # 0
  BY <1>0 DEF IsTop
<1>4. sep \in 1 .. F /\ i[sep] = Sep
  BY <1>0 DEF IsTop
<1>5. TopDir(i) = IF sep = 1 THEN <<Sep>> ELSE Upto(i, sep - 1)
  BY <1>0 DEF IsTop
<1> HIDE DEF F
<1>6. sep # 1 => \A k \in 1 .. sep - 1 : i[k] # Escape
  <2> SUFFICES ASSUME sep # 1 PROVE \A k \in 1 .. sep - 1 : i[k] # Escape
    OBVIOUS
  <2> DEFINE m == sep - 1
  <2>1. m \in 0 .. Len(i)
    BY <1>1, <1>2, <1>4
  <2> HIDE DEF m
  <2>2. Len(SubSeq(i, 1, m)) = m /\ \A k \in 1 .. m : SubSeq(i, 1, m)[k] = i[k]
    BY <1>1, <2>1, FirstPart
  <2>3. ~ HasEscape(SubSeq(i, 1, m))
    BY <1>5 DEF EscapedDir, Upto, m
  <2>4. \A k \in 1 .. m : i[k] # Escape
    BY <2>2, <2>3 DEF HasEscape, Contains
  <2> QED BY <2>4 DEF m
<1>7. ASSUME NEW k \in 1 .. sep PROVE k <= Len(i) /\ i[k] \notin {"*", "?", Escape}
  <2>1. k = sep \/ k \in 1 .. sep - 1
    BY <1>2, <1>4
  <2>2. CASE k = sep
    BY <1>1, <1>2, <1>4, <2>2 DEF Sep, Escape
  <2>3. CASE k \in 1 .. sep - 1
    <3>1. i[k] # Escape
      BY <1>4, <1>6, <2>3
    <3>2. EscapesBefore(i, k) % 2 = 0
      <4>1. CASE k = 1
        BY <4>1, EscapePairs
      <4>2. CASE k # 1
        <5>1. k - 1 \in Nat \ {0} /\ (k - 1) + 1 = k /\ k - 1 \in 1 .. sep - 1 /\ sep # 1
          BY <1>4, <2>3, <4>2
        <5>2. i[k - 1] # Escape
          BY <1>6, <5>1
        <5>3. EscapesBefore(i, (k - 1) + 1) % 2 = 0
          BY <5>1, <5>2, EscapePairs
        <5> QED BY <5>1, <5>3
      <4> QED BY <4>1, <4>2
    <3>3. k \in 1 .. Len(i) /\ k < F
      BY <1>1, <1>2, <1>4, <2>3
    <3> QED BY <1>1, <1>2, <3>1, <3>2, <3>3 DEF Special
  <2> QED BY <2>1, <2>2, <2>3
<1>8. PICK m : IsMatcher(m, p, i, 1) /\ m[1][1]
  BY <1>1, MatchesIs
<1> DEFINE P == {k \in Nat : k <= sep => k <= L /\ m[k + 1][k + 1] /\ \A l \in 1 .. k : i[l] = p[l]}
<1>9. 0 \in P
  <2>1. 0 + 1 = 1 /\ 1 .. 0 = {} /\ 0 <= L
    BY <1>1
  <2> QED BY <1>8, <2>1
<1>10. ASSUME NEW k \in P PROVE k + 1 \in P
  <2> SUFFICES ASSUME k + 1 <= sep
               PROVE  k + 1 <= L /\ m[(k + 1) + 1][(k + 1) + 1] /\ \A l \in 1 .. k + 1 : i[l] = p[l]
    OBVIOUS
  <2> DEFINE j == k + 1
  <2>1. k \in Nat /\ j \in 1 .. sep /\ k <= L /\ m[j][j] /\ \A l \in 1 .. k : i[l] = p[l]
    BY <1>4
  <2>2. j \in 1 .. Len(i) + 1 /\ j \in 1 .. Len(p) + 1 /\ ~ (j > Len(i))
    BY <1>1, <1>7, <2>1
  <2>3. RestMatches(p, i, j, j, m)
    <3> HIDE DEF j
    <3> QED BY <1>8, <2>1, <2>2, MatcherAt
  <2>4. i[j] # "*" /\ i[j] # "?" /\ i[j] # Escape
    BY <1>7, <2>1
  <2>5. j <= L /\ p[j] = i[j] /\ m[j + 1][j + 1]
    <3> HIDE DEF j
    <3> QED BY <2>2, <2>3, <2>4 DEF RestMatches
  <2>6. \A l \in 1 .. k + 1 : l = j \/ l \in 1 .. k
    BY <2>1
  <2> QED BY <2>1, <2>5, <2>6
<1>11. P = Nat
  <2>1. P \in SUBSET Nat
    OBVIOUS
  <2> HIDE DEF P
  <2> QED BY <1>9, <1>10, <2>1, NatSetInduction
<1>12. sep <= L /\ \A l \in 1 .. sep : i[l] = p[l]
  <2>1. sep \in Nat
    BY <1>4
  <2> QED BY <1>11, <2>1
<1> HIDE DEF P
<1>13. CASE sep = 1
  <2>1. /\ 1 \in 1 .. Len(p) + 1 /\ 1 \in 1 - 1 .. Len(p) /\ 1 + 1 - 1 = 1
    BY <1>1
  <2>2. SubSeq(p, 1, 1) \in Seq(S) /\ Len(SubSeq(p, 1, 1)) = 1 /\ SubSeq(p, 1, 1)[1] = Sep
    <3>1. /\ SubSeq(p, 1, 1) \in Seq(S) /\ Len(SubSeq(p, 1, 1)) = 1 + 1 - 1
          /\ \A k \in 1 .. 1 + 1 - 1 : SubSeq(p, 1, 1)[k] = p[1 + k - 1]
      BY <1>1, <2>1, PartOf
    <3> QED BY <1>1, <3>1
  <2>3. <<Sep>> \in Seq(S) /\ Len(<<Sep>>) = 1 /\ <<Sep>>[1] = Sep
    <3>1. Sep \in S
      BY <1>1, ElementOfSeq
    <3> QED BY <3>1
  <2>4. Upto(p, 1) = <<Sep>>
    <3> DEFINE u == SubSeq(p, 1, 1)
    <3>1. u \in Seq(S) /\ Len(u) = 1 /\ u[1] = Sep
      BY <2>2
    <3> HIDE DEF u
    <3>2. u = <<Sep>>
      BY <2>3, <3>1, SeqEqual
    <3> QED BY <3>2 DEF u, Upto
  <2>5. IsBelow(p, <<Sep>>)
    <3>1. IsPrefix(<<Sep>>, p)
      <4> DEFINE r == <<Sep>>
      <4>1. r \in Seq(S) /\ Len(r) = 1 /\ r[1] = Sep
        BY <2>3
      <4> HIDE DEF r
      <4>2. Len(r) <= Len(p) /\ \A k \in 1 .. Len(r) : r[k] = p[k]
        BY <1>1, <4>1
      <4>3. IsPrefix(r, p)
        BY <1>1, <4>1, <4>2, PrefixIs
      <4> QED BY <4>3 DEF r
    <3> QED BY <3>1 DEF IsBelow
  <2> QED BY <1>1, <1>5, <1>13, <2>4, <2>5
<1>14. CASE sep # 1
  <2> DEFINE n == sep - 1
  <2>1. n \in 1 .. L /\ n \in 1 .. Len(i) /\ n + 1 = sep /\ n \in Nat
    BY <1>1, <1>2, <1>4, <1>12, <1>14
  <2> HIDE DEF n
  <2>2. /\ 1 \in 1 .. Len(p) + 1 /\ n \in 1 - 1 .. Len(p) /\ 1 \in 1 .. Len(i) + 1 /\ n \in 1 - 1 .. Len(i)
        /\ n + 1 - 1 = n /\ \A k \in 1 .. n : 1 + k - 1 = k
    BY <1>1, <2>1
  <2> DEFINE u == SubSeq(p, 1, n)
             v == SubSeq(i, 1, n)
  <2>3. u \in Seq(S) /\ Len(u) = n /\ \A k \in 1 .. n : u[k] = p[k]
    <3>1. u \in Seq(S) /\ Len(u) = n + 1 - 1 /\ \A k \in 1 .. n + 1 - 1 : u[k] = p[1 + k - 1]
      BY <1>1, <2>2, PartOf
    <3> QED BY <2>2, <3>1
  <2>4. v \in Seq(S) /\ Len(v) = n /\ \A k \in 1 .. n : v[k] = i[k]
    <3>1. v \in Seq(S) /\ Len(v) = n + 1 - 1 /\ \A k \in 1 .. n + 1 - 1 : v[k] = i[1 + k - 1]
      BY <1>1, <2>2, PartOf
    <3> QED BY <2>2, <3>1
  <2> HIDE DEF u, v
  <2>5. u = v
    <3>1. ASSUME NEW k \in 1 .. Len(u) PROVE u[k] = v[k]
      <4>1. k \in 1 .. n /\ k \in 1 .. sep
        BY <1>4, <2>1, <2>3
      <4>2. u[k] = p[k] /\ v[k] = i[k]
        BY <2>3, <2>4, <4>1
      <4> QED BY <1>12, <4>1, <4>2
    <3> QED BY <2>3, <2>4, <3>1, SeqEqual
  <2>6. IsPrefix(u, p)
    BY <1>1, <2>1, <2>3, PrefixIs
  <2>7. p[n + 1] = Sep /\ Len(u) # Len(p)
    <3>0. sep \in Nat /\ sep <= L /\ n + 1 = sep /\ n \in Nat /\ L \in Nat
      BY <1>1, <1>12, <2>1
    <3>1. n + 1 \in 1 .. sep /\ n # L /\ n + 1 = sep
      <4> HIDE DEF L
      <4> QED BY <3>0
    <3>2. p[n + 1] = i[n + 1]
      BY <1>12, <3>1
    <3>3. p[n + 1] = Sep
      BY <1>4, <3>1, <3>2
    <3>4. Len(u) # Len(p)
      BY <2>3, <3>1
    <3> QED BY <3>3, <3>4
  <2>8. IsBelow(p, u)
    <3>1. u # p
      BY <2>7
    <3> QED BY <2>3, <2>6, <2>7, <3>1 DEF IsBelow
  <2>9. TopDir(i) = v
    BY <1>5, <1>14 DEF v, n, Upto
  <2> QED BY <1>1, <2>1, <2>5, <2>8, <2>9 DEF u, Upto
<1> QED BY <1>13, <1>14

(* A pattern whose directory is written with an escape matches no name that*)
(* begins with the directory as it is written: after the escape the matcher*)
(* is further in the pattern than in the name, and what it compares with   *)
(* the next separator is not one.                                          *)
LEMMA EscapedFindsNothing ==
  ASSUME sc \in DOMAIN Scenarios, NEW i \in Patterns, EscapedDir(i), NEW q, IsName(q), IsPrefix(TopDir(i), q)
  PROVE  ~ Matches(q, i)
<1> DEFINE S == ToSet(i) \union ToSet(q)
           N == Len(q)
<1>1. i \in Seq(S) /\ q \in Seq(S) /\ Len(i) \in Nat \ {0} /\ N \in Nat
  <2>1. i \in Seq(ToSet(i)) /\ q \in Seq(ToSet(q))
    BY PatternIsSequence, NameIsSequence
  <2>2. i \in Seq(S) /\ q \in Seq(S)
    BY <2>1, SeqMonotonic
  <2> QED BY <2>2, PatternIsSequence, NameIsSequence
<1> HIDE DEF S
<1>2. PICK s : IsTop(i, s)
  BY TopDirIs DEF EscapedDir
<1>3. /\ s \in 1 .. Len(i) /\ i[s] = Sep
      /\ \A k \in 1 .. s - 1 : i[k] \notin Special \/ EscapesBefore(i, k) % 2 # 0
  <2>1. FirstUnescapedSpecialChar(i) \in 1 .. Len(i) /\ s \in 1 .. FirstUnescapedSpecialChar(i) /\ i[s] = Sep
        /\ \A k \in 1 .. Len(i) : k < FirstUnescapedSpecialChar(i) => i[k] \notin Special \/ EscapesBefore(i, k) % 2 # 0
    BY <1>2 DEF IsTop
  <2> QED BY <1>1, <2>1
<1>4. /\ s \in 2 .. Len(i) /\ s - 1 <= N /\ \A x \in 1 .. s - 1 : q[x] = i[x]
      /\ \E e \in 1 .. s - 1 : i[e] = Escape
  <2> DEFINE u == TopDir(i)
  <2>1. u = IF s = 1 THEN <<Sep>> ELSE SubSeq(i, 1, s - 1)
    BY <1>2 DEF IsTop, Upto
  <2>2. \E e \in 1 .. Len(u) : u[e] = Escape
    BY DEF EscapedDir, HasEscape, Contains
  <2>3. s # 1
    <3>1. \A e \in 1 .. Len(<<Sep>>) : <<Sep>>[e] # Escape
      BY DEF Sep, Escape
    <3> QED BY <2>1, <2>2, <3>1
  <2>4. 1 \in 1 .. Len(i) + 1 /\ s - 1 \in 1 - 1 .. Len(i) /\ s - 1 + 1 - 1 = s - 1
        /\ \A k \in 1 .. s - 1 : 1 + k - 1 = k
    BY <1>1, <1>3
  <2>5. u \in Seq(S) /\ Len(u) = s - 1 /\ \A k \in 1 .. s - 1 : u[k] = i[k]
    <3>1. /\ SubSeq(i, 1, s - 1) \in Seq(S) /\ Len(SubSeq(i, 1, s - 1)) = s - 1 + 1 - 1
          /\ \A k \in 1 .. s - 1 + 1 - 1 : SubSeq(i, 1, s - 1)[k] = i[1 + k - 1]
      BY <1>1, <2>4, PartOf
    <3> QED BY <2>1, <2>3, <2>4, <3>1
  <2>6. IsPrefix(u, q)
    OBVIOUS
  <2> HIDE DEF u
  <2>7. Len(u) <= N /\ \A x \in 1 .. Len(u) : u[x] = q[x]
    BY <1>1, <2>5, <2>6, PrefixIs
  <2>8. s \in 2 .. Len(i)
    BY <1>1, <1>3, <2>3
  <2> QED BY <2>2, <2>5, <2>7, <2>8
<1>5. SUFFICES ASSUME Matches(q, i) PROVE FALSE
  OBVIOUS
<1>6. PICK m : IsMatcher(m, q, i, 1) /\ m[1][1]
  BY <1>1, <1>5, MatchesIs
<1>7. /\ Even(i, 1)
      /\ \A k \in 1 .. Len(i) : /\ i[k] # Escape => Even(i, k + 1)
                                /\ i[k] = Escape => (Even(i, k + 1) <=> ~ Even(i, k))
  BY <1>1, EvenIs
<1>8. \A k \in 1 .. s : Even(i, k) => i[k] # "*" /\ i[k] # "?"
  <2>1. \A k \in 1 .. s - 1 : Even(i, k) => i[k] # "*" /\ i[k] # "?"
    BY <1>3 DEF Even, Special
  <2>2. i[s] # "*" /\ i[s] # "?"
    BY <1>3 DEF Sep
  <2>3. \A k \in 1 .. s : k = s \/ k \in 1 .. s - 1
    BY <1>1, <1>3
  <2> QED BY <2>1, <2>2, <2>3
(* The matcher at the character j that is not escaped, and x of the name.  *)
<1>9. ASSUME NEW j \in 1 .. s, NEW x \in 1 .. s - 1, m[j][x], Even(i, j)
      PROVE  /\ q[x] = i[x]
             /\ i[j] # Escape => i[x] = i[j] /\ m[j + 1][x + 1]
             /\ i[j] = Escape => i[x] = i[j + 1] /\ m[j + 2][x + 1]
  <2>1. j \in 1 .. Len(i) + 1 /\ x \in 1 .. N + 1 /\ ~ (j > Len(i))
    BY <1>1, <1>4
  <2>2. RestMatches(q, i, j, x, m)
    BY <1>6, <1>9, <2>1, MatcherAt
  <2>3. q[x] = i[x]
    BY <1>4
  <2>4. i[j] # "*" /\ i[j] # "?"
    BY <1>8, <1>9
  <2> QED BY <2>1, <2>2, <2>3, <2>4 DEF RestMatches
<1> DEFINE A(k) == \E x \in 1 .. k + 1 : /\ m[k + 1][x]
                                         /\ \A j \in x .. k : i[j] # Sep
                                         /\ (\E j \in 1 .. k : i[j] = Escape) => x <= k
           Q(k) == /\ Even(i, k + 1) => A(k)
                   /\ ~ Even(i, k + 1) => k >= 1 /\ Even(i, k) /\ i[k] = Escape /\ A(k - 1)
           P == {k \in Nat : k <= s - 1 => Q(k)}
<1>10. 0 \in P
  <2>1. 1 \in 1 .. 0 + 1 /\ m[0 + 1][1] /\ 1 .. 0 = {}
    BY <1>6
  <2>2. A(0) /\ Even(i, 0 + 1)
    BY <1>7, <2>1
  <2> HIDE DEF A
  <2> QED BY <2>2
(* An escaped character is not the separator.                              *)
<1>11. ASSUME NEW k \in 1 .. s - 1, Even(i, k), i[k] = Escape, A(k - 1)
       PROVE  \E x \in 1 .. k : m[k + 2][x + 1] /\ i[x] = i[k + 1] /\ i[x] # Sep /\ \A j \in x .. k : i[j] # Sep
  <2>1. k - 1 + 1 = k /\ k \in 1 .. s /\ k \in Nat
    BY <1>3
  <2>2. PICK x \in 1 .. k : m[k][x] /\ \A j \in x .. k - 1 : i[j] # Sep
    <3>1. PICK x \in 1 .. k - 1 + 1 : m[k - 1 + 1][x] /\ \A j \in x .. k - 1 : i[j] # Sep
      BY <1>11
    <3> QED BY <2>1, <3>1
  <2>3. x \in 1 .. s - 1
    BY <1>3, <2>1
  <2>4. i[x] = i[k + 1] /\ m[k + 2][x + 1]
    BY <1>9, <1>11, <2>1, <2>2, <2>3
  <2>5. i[k] # Sep
    BY <1>11 DEF Sep, Escape
  <2>6. \A j \in x .. k : i[j] # Sep
    <3>1. \A j \in x .. k : j = k \/ j \in x .. k - 1
      BY <2>1
    <3> QED BY <2>2, <2>5, <3>1
  <2>7. x \in x .. k
    BY <2>1
  <2> QED BY <2>4, <2>6, <2>7
<1>12. ASSUME NEW k \in P PROVE k + 1 \in P
  <2> SUFFICES ASSUME k + 1 <= s - 1 PROVE Q(k + 1)
    OBVIOUS
  <2> DEFINE j == k + 1
  <2>1. k \in Nat /\ j \in 1 .. s - 1 /\ j \in 1 .. s /\ j \in 1 .. Len(i) /\ j - 1 = k /\ j >= 1 /\ j \in Nat
        /\ k <= s - 1 /\ s \in Nat
    BY <1>1, <1>3
  <2>2. Q(k)
    BY <2>1
  <2>3. CASE Even(i, j) /\ i[j] = Escape
    <3> HIDE DEF A
    <3>1. Even(i, k + 1)
      BY <2>3
    <3>2. A(k)
      BY <2>2, <3>1
    <3>3. j \in 1 .. Len(i) /\ i[j] = Escape /\ Even(i, j) /\ j - 1 = k /\ j >= 1
      BY <2>1, <2>3
    <3>4. A(j - 1)
      BY <3>2, <3>3
    <3> HIDE DEF j
    <3>5. ~ Even(i, j + 1)
      BY <1>7, <3>3
    <3> QED BY <3>3, <3>4, <3>5 DEF j
  <2>4. CASE Even(i, j) /\ i[j] # Escape
    <3>1. PICK x \in 1 .. k + 1 : /\ m[k + 1][x]
                                  /\ \A l \in x .. k : i[l] # Sep
                                  /\ (\E l \in 1 .. k : i[l] = Escape) => x <= k
      BY <2>2, <2>4
    <3>2. x \in 1 .. s - 1 /\ x \in Nat /\ x <= j
      BY <2>1
    <3>3. i[x] = i[j] /\ m[j + 1][x + 1]
      BY <1>9, <2>1, <2>4, <3>1, <3>2
    <3>4. ASSUME NEW l \in x + 1 .. j PROVE i[l] # Sep
      <4>1. l \in x .. k \/ (l = j /\ x \in x .. k)
        BY <2>1, <3>2
      <4> QED BY <3>1, <3>3, <4>1
    <3>5. (\E l \in 1 .. j : i[l] = Escape) => x + 1 <= j
      <4>1. \A l \in 1 .. j : l = j \/ l \in 1 .. k
        BY <2>1
      <4>2. (\E l \in 1 .. j : i[l] = Escape) => x <= k
        BY <2>4, <3>1, <4>1
      <4> QED BY <2>1, <3>2, <4>2
    <3>6. x + 1 \in 1 .. j + 1
      BY <2>1, <3>2
    <3>7. A(j)
      BY <3>3, <3>4, <3>5, <3>6
    <3>8. Even(i, j + 1)
      BY <1>7, <2>1, <2>4
    <3> HIDE DEF A, j
    <3> QED BY <3>7, <3>8 DEF j
  <2>5. CASE ~ Even(i, j)
    <3>1. k >= 1 /\ Even(i, k) /\ i[k] = Escape /\ A(k - 1)
      BY <2>2, <2>5
    <3>2. k \in 1 .. s - 1
      BY <2>1, <3>1
    <3>3. PICK x \in 1 .. k : m[k + 2][x + 1] /\ i[x] = i[j] /\ i[x] # Sep /\ \A l \in x .. k : i[l] # Sep
      <4> HIDE DEF A
      <4> QED BY <1>11, <3>1, <3>2
    <3>4. x + 1 \in 1 .. j + 1 /\ x + 1 <= j /\ k + 2 = j + 1 /\ x \in Nat
      BY <2>1
    <3>5. ASSUME NEW l \in x + 1 .. j PROVE i[l] # Sep
      <4>1. l = j \/ l \in x .. k
        BY <2>1, <3>4
      <4> QED BY <3>3, <4>1
    <3>6. A(j)
      BY <3>3, <3>4, <3>5
    <3>7. Even(i, j + 1)
      BY <1>7, <2>1, <2>5
    <3> HIDE DEF A, j
    <3> QED BY <3>6, <3>7 DEF j
  <2> HIDE DEF Q
  <2> QED BY <2>3, <2>4, <2>5
<1>13. P = Nat
  <2>1. P \in SUBSET Nat
    OBVIOUS
  <2> HIDE DEF P
  <2> QED BY <1>10, <1>12, <2>1, NatSetInduction
<1>14. s - 1 \in Nat /\ (s - 1) + 1 = s /\ s \in 1 .. s /\ s - 1 \in 1 .. s - 1
  BY <1>4
<1>15. Q(s - 1)
  <2>1. s - 1 \in P /\ s - 1 <= s - 1
    <3> HIDE DEF P
    <3> QED BY <1>13, <1>14
  <2> HIDE DEF Q
  <2> QED BY <2>1
<1>16. CASE Even(i, s)
  <2>1. A(s - 1)
    BY <1>14, <1>15, <1>16
  <2>2. PICK x \in 1 .. s : m[s][x] /\ (\A j \in x .. s - 1 : i[j] # Sep) /\ x <= s - 1
    <3>1. PICK x \in 1 .. (s - 1) + 1 : /\ m[(s - 1) + 1][x]
                                        /\ \A j \in x .. s - 1 : i[j] # Sep
                                        /\ (\E j \in 1 .. s - 1 : i[j] = Escape) => x <= s - 1
      BY <2>1
    <3> QED BY <1>4, <1>14, <3>1
  <2>3. x \in 1 .. s - 1 /\ x \in x .. s - 1
    BY <1>3, <2>2
  <2>4. i[s] # Escape
    BY <1>3 DEF Sep, Escape
  <2>5. i[x] = i[s]
    BY <1>9, <1>14, <1>16, <2>2, <2>3, <2>4
  <2> QED BY <1>3, <2>2, <2>3, <2>5
<1>17. CASE ~ Even(i, s)
  <2>1. Even(i, s - 1) /\ i[s - 1] = Escape /\ A((s - 1) - 1)
    BY <1>14, <1>15, <1>17
  <2>2. \E x \in 1 .. s - 1 : i[x] = i[(s - 1) + 1] /\ i[x] # Sep
    <3> HIDE DEF A
    <3> QED BY <1>11, <1>14, <2>1
  <2> QED BY <1>3, <1>14, <2>2
<1> QED BY <1>16, <1>17

(* A name is below its directory, which is how it begins.                  *)
LEMMA BelowDirectory ==
  ASSUME NEW p, IsName(p), p # <<Sep>>
  PROVE  IsBelow(p, DirName(p)) /\ \E n \in DOMAIN p : DirName(p) = Upto(p, n)
<1> DEFINE d == DirName(p)
           m == LastSlash(p)
<1>1. d # p /\ IsPrefix(d, p) /\ Len(d) = (IF m = 1 THEN 1 ELSE m - 1) /\ d \in Seq(ToSet(p))
  BY DirOfName
<1>2. m \in 1 .. Len(p) - 1 /\ p[m] = Sep /\ (m = 1 => d = <<Sep>>)
  BY NameParts
<1>3. Len(p) \in Nat /\ DOMAIN p = 1 .. Len(p)
  BY NameIsSequence
<1> HIDE DEF d, m
<1>4. d = SubSeq(p, 1, Len(d))
  BY <1>1, SubSeqFull DEF IsPrefix
<1>5. d = <<Sep>> \/ p[Len(d) + 1] = Sep
  <2> SUFFICES ASSUME m # 1 PROVE p[Len(d) + 1] = Sep
    BY <1>2
  <2>1. Len(d) + 1 = m
    BY <1>1, <1>2, <1>3
  <2> QED BY <1>2, <2>1
<1>6. Len(d) \in DOMAIN p
  BY <1>1, <1>2, <1>3
<1> DEFINE n == Len(d)
<1> HIDE DEF n
<1>7. n \in DOMAIN p /\ d = Upto(p, n)
  BY <1>4, <1>6 DEF n, Upto
<1> QED BY <1>1, <1>5, <1>7 DEF IsBelow, d

(* What is below a directory is an entry of it, or below one that is a     *)
(* directory.                                                              *)
LEMMA SomeEntry ==
  ASSUME TreeTyped, TreeIsWhole, NEW p \in DOMAIN tree, NEW dir \in PossibleNames, IsBelow(p, dir)
  PROVE  \E q \in Entries(dir) : q = p \/ IsBelow(p, q)
<1> DEFINE G(q) == q \in DOMAIN tree /\ IsBelow(q, dir) /\ (q = p \/ IsBelow(p, q))
           T == {n \in Nat : \E q : G(q) /\ Len(q) = n}
<1>1. \A q \in PossibleNames : IsName(q) /\ Len(q) \in Nat
  BY InScenario, NameIsSequence DEF TreeTyped
<1>2. DOMAIN tree \subseteq PossibleNames
  BY DEF TreeTyped
<1>3. Len(p) \in T
  BY <1>1, <1>2
<1>4. PICK x \in T : \A y \in T : x <= y
  <2>1. T \in SUBSET Nat
    OBVIOUS
  <2> HIDE DEF T
  <2> QED BY <1>3, <2>1, NatMinimum
<1>5. PICK q : G(q) /\ Len(q) = x
  BY <1>4
<1>6. IsName(q) /\ IsName(dir) /\ IsName(p)
  BY <1>1, <1>2, <1>5
<1>7. q # <<Sep>> /\ (dir = DirName(q) \/ IsBelow(DirName(q), dir))
  BY <1>5, <1>6, AboveDirectory
<1>8. CASE dir = DirName(q)
  <2>1. EntryName(dir, BaseName(q)) = q /\ q # dir
    BY <1>6, <1>7, <1>8, DirOfName
  <2>2. q \in Entries(dir)
    BY <1>5, <1>8, <2>1 DEF Entries
  <2> QED BY <1>5, <2>2
<1>9. CASE IsBelow(DirName(q), dir)
  <2> DEFINE d == DirName(q)
  <2>1. IsBelow(q, d) /\ \E n \in DOMAIN q : d = Upto(q, n)
    BY <1>6, <1>7, BelowDirectory
  <2>2. d \in PossibleNames
    BY <1>2, <1>5, <2>1, InScenario DEF TreeTyped
  <2>3. d \in DOMAIN tree
    BY <1>5, <2>1, <2>2 DEF TreeIsWhole, IsDirectory
  <2>4. IsBelow(p, d)
    <3>1. IsName(d)
      BY <1>1, <2>2
    <3> HIDE DEF d
    <3> QED BY <1>5, <1>6, <2>1, <3>1, BelowBelow
  <2>5. Len(d) \in T
    <3>1. Len(d) \in Nat
      BY <1>1, <2>2
    <3>2. G(d)
      BY <1>9, <2>3, <2>4
    <3> HIDE DEF G, d
    <3> QED BY <3>1, <3>2
  <2>6. Len(d) < Len(q)
    <3>1. LastSlash(q) \in 1 .. Len(q) - 1 /\ Len(q) \in Nat
      BY <1>1, <1>2, <1>5, <1>6, <1>7, NameParts
    <3>2. Len(d) = IF LastSlash(q) = 1 THEN 1 ELSE LastSlash(q) - 1
      BY <1>6, <1>7, DirOfName
    <3> QED BY <3>1, <3>2
  <2> HIDE DEF d, G
  <2> QED BY <1>4, <1>5, <2>5, <2>6
<1> QED BY <1>7, <1>8, <1>9

-----------------------------------------------------------------------------
(* The rows at rest.  A name that the scans keep has a row that agrees with*)
(* its file; or an event of it is to be delivered or its job to be done; or*)
(* the file is there, and a scan waits that will find it, or the job that  *)
(* runs comes to it.  A scan finds files, not names: of one that is gone   *)
(* only the event tells.                                                   *)

(* The include i leads to p.                                               *)
Finds(i, p) == Matches(p, i) /\ ~ EscapedDir(i)

(* The job of an event of p.                                               *)
IsEventOf(j, p) == j.event /\ j.incl = <<p>>

EventToCome(p) ==
  p \in noted \/ (\E k \in DOMAIN queue : IsEventOf(queue[k], p)) \/ (phase # "idle" /\ IsEventOf(job, p))

(* A scan with the configuration's types waits.                            *)
IsScan(j) == j.types = types /\ j.incl = Includes

ScanToCome == \E k \in DOMAIN queue : IsScan(queue[k])

(* The crawl comes to p, or to a directory that p is below.                *)
CrawlComes(p) ==
  \/ phase \in {"open", "type"} /\ IsBelow(p, at)
  \/ \E k \in DOMAIN frames : \E q \in frames[k].left : q = p \/ IsBelow(p, q)

(* The job that runs comes to p.                                           *)
JobComes(p) ==
  /\ phase # "idle" /\ job.types = types
  /\ \/ CrawlComes(p)
     \/ \E k \in DOMAIN job.incl : Finds(job.incl[k], p) /\ (phase = "include" \/ k > 1)

(* A job with other types is followed by a scan.                           *)
StaleFollowed ==
  /\ \A k \in DOMAIN queue : queue[k].types # types => \E l \in DOMAIN queue : l > k /\ IsScan(queue[l])
  /\ phase # "idle" /\ job.types # types => ScanToCome

(* The row of a name agrees with the file, or will.                        *)
IsCared(p) ==
  RowAgrees(p) \/ EventToCome(p) \/ (p \in DOMAIN tree /\ (ScanToCome \/ JobComes(p)))

AgreeInv ==
  /\ installs = 0 => DOMAIN rows = {}
  /\ undefined = "no" /\ installs > 0 =>
       StaleFollowed /\ \A p \in PossibleNames : IsKept(p) => IsCared(p)

(* What is kept depends on the scenario.                                   *)
LEMMA SameKept ==
  ASSUME sc' = sc
  PROVE  /\ \A p : (IsKept(p)' <=> IsKept(p)) /\ \A i : Finds(i, p)' <=> Finds(i, p)
         /\ Includes' = Includes /\ PossibleNames' = PossibleNames
<1>1. Includes' = Includes /\ Excludes' = Excludes
  BY DEF Includes, Excludes
<1>2. \A p : Monitored(p)' <=> Monitored(p)
  BY <1>1 DEF Monitored, MatchesExcludes
<1>3. \A p : PassedOver(p)' <=> PassedOver(p)
  BY SameScenario
<1>4. PossibleNames' = PossibleNames
  BY SameScenario
<1>5. \A p : IsKept(p)' <=> IsKept(p)
  BY <1>1, <1>2, <1>3 DEF IsKept
<1> QED BY <1>1, <1>4, <1>5 DEF Finds

(* The attributes of a file are never taken for those of no file.          *)
LEMMA SomeElement ==
  ASSUME NEW f, NEW T \in SUBSET AttrTypeSet
  PROVE  CollectAttributes(f, T) # Nothing
<1> SUFFICES ASSUME CollectAttributes(f, T) = Nothing PROVE FALSE
  OBVIOUS
<1>1. DOMAIN CollectAttributes(f, T) \subseteq AttrTypeSet
  BY DEF CollectAttributes, Collectable
<1>2. "nothing" \in DOMAIN Nothing
  BY DEF Nothing
<1>3. PICK n \in 1 .. 10 : AttrTypes[n] = "nothing"
  BY <1>1, <1>2, AttrTypeNumbers DEF AttrTypeSet
<1> QED BY <1>3 DEF AttrTypes

(* What a job finds of a file that is there, and of one that is not.       *)
LEMMA FoundIs ==
  ASSUME ScanInv, phase # "idle", NEW p
  PROVE  /\ ~ FileExists(p) => Found(p) = Nothing
         /\ FileExists(p) => /\ p \in PossibleNames /\ tree[p] \in FilesAt(p) /\ job.types \in InstalledTypes
                             /\ Found(p) = CollectAttributes(tree[p], job.types) /\ Found(p) # Nothing
<1> SUFFICES ASSUME FileExists(p)
             PROVE  /\ p \in PossibleNames /\ tree[p] \in FilesAt(p) /\ job.types \in InstalledTypes
                    /\ Found(p) = CollectAttributes(tree[p], job.types) /\ Found(p) # Nothing
  BY DEF Found
<1>1. p \in PossibleNames /\ tree[p] \in FilesAt(p)
  BY DEF FileExists, ScanInv, TreeTyped
<1>2. job.types \in InstalledTypes /\ job.types \in SUBSET AttrTypeSet
  BY RunningJob, InScenario DEF ScanInv, TreeTyped
<1>3. Found(p) = CollectAttributes(tree[p], job.types)
  BY DEF Found
<1> QED BY <1>1, <1>2, <1>3, SomeElement

(* process_element leaves the other rows alone, and looking at a file the  *)
(* other files.                                                            *)
LEMMA OthersAgree ==
  ASSUME NEW p, NEW e, Process(p, e), Collected(p) \/ UNCHANGED <<tree, noted>>, types' = types, NEW q, q # p
  PROVE  /\ RowAgrees(q)' <=> RowAgrees(q)
         /\ DOMAIN tree' = DOMAIN tree /\ noted \subseteq noted'
<1>1. /\ q \in DOMAIN rows' <=> q \in DOMAIN rows
      /\ q \in DOMAIN rows => rows'[q] = rows[q]
  <2>1. \/ \E v : rows' = With(rows, p, v)
        \/ rows' = Without(rows, {p})
        \/ rows' = rows
    BY DEF Process, ProcessNew, ProcessKnown, ProcessGone, known
  <2>2. ASSUME NEW v, rows' = With(rows, p, v)
        PROVE  (q \in DOMAIN rows' <=> q \in DOMAIN rows) /\ (q \in DOMAIN rows => rows'[q] = rows[q])
    BY <2>2 DEF With
  <2>3. ASSUME rows' = Without(rows, {p})
        PROVE  (q \in DOMAIN rows' <=> q \in DOMAIN rows) /\ (q \in DOMAIN rows => rows'[q] = rows[q])
    BY <2>3 DEF Without, Restrict
  <2> QED BY <2>1, <2>2, <2>3
<1>2. /\ DOMAIN tree' = DOMAIN tree /\ noted \subseteq noted'
      /\ q \in DOMAIN tree => tree'[q] = tree[q]
  BY DEF Collected
<1>3. FileExists(q)' <=> FileExists(q)
  BY <1>2 DEF FileExists
<1>4. ASSUME q \in DOMAIN rows <=> FileExists(q)
      PROVE  RowAgrees(q)' <=> RowAgrees(q)
  <2>1. q \in DOMAIN rows => tree'[q] = tree[q] /\ rows'[q] = rows[q]
    BY <1>1, <1>2, <1>4 DEF FileExists
  <2> QED BY <1>1, <1>3, <2>1 DEF RowAgrees
<1> QED BY <1>1, <1>2, <1>3, <1>4 DEF RowAgrees

(* A file that was looked at has a row that agrees with it, or there is an *)
(* event of it.                                                            *)
LEMMA LookedAt ==
  ASSUME ScanInv, phase # "idle", NEW p, Process(p, Found(p)), Collected(p), undefined = "no", undefined' = "no",
         job.types = types \/ ~ FileExists(p), types' = types
  PROVE  RowAgrees(p)' \/ p \in noted'
<1> SUFFICES ASSUME p \notin noted' PROVE RowAgrees(p)'
  OBVIOUS
<1> DEFINE e == Found(p)
<1>1. tree' = tree
  BY DEF Collected
<1>2. FileExists(p)' <=> FileExists(p)
  BY <1>1 DEF FileExists
<1>3. CASE ~ FileExists(p)
  <2>1. e = Nothing
    BY <1>3, FoundIs
  <2>2. ProcessGone(p) \/ (p \notin DOMAIN rows /\ rows' = rows)
    BY <2>1 DEF Process, ProcessNew, ProcessKnown, known
  <2>3. ASSUME ProcessGone(p) PROVE rows' = Without(rows, {p})
    BY <2>3 DEF ProcessGone
  <2>4. p \notin DOMAIN rows'
    BY <2>2, <2>3 DEF Without, Restrict
  <2> QED BY <1>2, <1>3, <2>4 DEF RowAgrees
<1>4. CASE FileExists(p)
  <2>1. /\ p \in PossibleNames /\ tree[p] \in FilesAt(p) /\ types \in InstalledTypes
        /\ e = CollectAttributes(tree[p], types) /\ e # Nothing
    BY <1>4, FoundIs
  <2>2. ASSUME p \in DOMAIN rows', Visible(rows'[p]) = Visible(Pack(e)) PROVE RowAgrees(p)'
    BY <1>1, <1>2, <1>4, <2>1, <2>2 DEF RowAgrees
  <2>3. CASE ProcessNew(p, e)
    <3>1. rows' = With(rows, p, Pack(e))
      BY <2>3 DEF ProcessNew
    <3>2. p \in DOMAIN rows' /\ rows'[p] = Pack(e)
      BY <3>1 DEF With
    <3> QED BY <2>2, <3>2
  <2>4. CASE ProcessKnown(p, e)
    <3> DEFINE row == Unpack(rows[p])
    <3>1. p \in DOMAIN rows /\ ~ ReadsNothing(rows[p])
      BY <2>4 DEF ProcessKnown
    <3>2. CASE ~ SameElement(e, row)
      <4>1. rows' = With(rows, p, Pack(e))
        BY <2>4, <3>1, <3>2 DEF ProcessKnown
      <4>2. p \in DOMAIN rows' /\ rows'[p] = Pack(e)
        BY <4>1 DEF With
      <4> QED BY <2>2, <4>2
    <3>3. CASE SameElement(e, row)
      <4>1. rows' = rows
        BY <2>4, <3>1, <3>3 DEF ProcessKnown, known
      <4>2. PICK g \in FilesAt(p), U \in InstalledTypes : rows[p] = Pack(CollectAttributes(g, U))
        BY <3>1 DEF ScanInv, RowsMade, RowMade
      <4> DEFINE x == CollectAttributes(g, U)
      <4>3. /\ IsElement(e) /\ DOMAIN e \subseteq AttrTypeSet
            /\ IsElement(x) /\ DOMAIN x \subseteq AttrTypeSet /\ "POSIX_ACL" \notin DOMAIN x
        <5>1. sc \in DOMAIN Scenarios
          BY DEF ScanInv, TreeTyped
        <5> QED BY <2>1, <3>1, <4>2, <5>1, MadeOf
      <4> HIDE DEF x, e
      <4>4. DOMAIN row = DOMAIN x /\ \A t \in DOMAIN x : row[t] = CreateAttributeFromTable(t, PackAttribute(t, x[t]))
        BY <4>2, <4>3, Unpacked DEF x
      <4>5. DOMAIN e = DOMAIN x /\ \A t \in DOMAIN e : Same(t, e[t], row[t])
        BY <3>3, <4>4 DEF SameElement
      <4>6. ASSUME NEW t \in DOMAIN e
            PROVE  VisibleOf(t, PackAttribute(t, e[t])) = VisibleOf(t, PackAttribute(t, x[t]))
        <5>1. t \in DOMAIN e \intersect DOMAIN x /\ t # "POSIX_ACL"
          BY <4>3, <4>5
        <5>2. Same(t, e[t], CreateAttributeFromTable(t, PackAttribute(t, x[t])))
          BY <4>4, <4>5, <5>1
        <5> QED BY <4>3, <5>1, <5>2, SameLooksTheSame
      <4>7. Visible(Pack(e)) = Visible(Pack(x))
        BY <4>3, <4>5, <4>6, LookTheSame
      <4>8. rows'[p] = Pack(x) /\ p \in DOMAIN rows'
        BY <3>1, <4>1, <4>2 DEF x
      <4> QED BY <2>2, <4>7, <4>8
    <3> QED BY <3>2, <3>3
  <2> HIDE DEF e
  <2> QED BY <2>1, <2>3, <2>4 DEF Process, e
<1> QED BY <1>3, <1>4

-----------------------------------------------------------------------------
(* The files, the jobs, and the rows at rest                               *)

(* It is enough to look at the names kept, as long as nothing undefined    *)
(* happens.                                                                *)
LEMMA AgreeBy ==
  ASSUME sc' = sc, AgreeInv, undefined = "no", installs' = installs,
         installs = 0 => DOMAIN rows' = DOMAIN rows,
         undefined' = "no" /\ installs > 0 /\ StaleFollowed =>
           StaleFollowed' /\ \A p \in PossibleNames : IsKept(p) /\ IsCared(p) => IsCared(p)'
  PROVE  AgreeInv'
<1>1. installs' = 0 => DOMAIN rows' = {}
  BY DEF AgreeInv
<1>2. ASSUME undefined' = "no", installs' > 0 PROVE StaleFollowed' /\ \A p \in PossibleNames' : IsKept(p)' => IsCared(p)'
  <2>1. StaleFollowed /\ \A p \in PossibleNames : IsKept(p) => IsCared(p)
    BY <1>2 DEF AgreeInv
  <2>2. StaleFollowed' /\ \A p \in PossibleNames : IsKept(p) => IsCared(p)'
    BY <1>2, <2>1
  <2>3. PossibleNames' = PossibleNames /\ \A p : IsKept(p)' <=> IsKept(p)
    BY SameKept
  <2> QED BY <2>2, <2>3
<1> QED BY <1>1, <1>2 DEF AgreeInv

(* What leaves the row and the file of a name alone.                       *)
LEMMA SameAgrees ==
  ASSUME NEW p, rows' = rows, types' = types, p \in DOMAIN tree' <=> p \in DOMAIN tree,
         p \in DOMAIN tree => tree'[p] = tree[p]
  PROVE  RowAgrees(p)' <=> RowAgrees(p)
<1>1. FileExists(p)' <=> FileExists(p)
  BY DEF FileExists
<1>2. FileExists(p) => tree'[p] = tree[p]
  BY DEF FileExists
<1> QED BY <1>1, <1>2 DEF RowAgrees

(* What leaves the queue alone.                                            *)
LEMMA SameQueue ==
  ASSUME sc' = sc, queue' = queue, types' = types
  PROVE  /\ ScanToCome' <=> ScanToCome
         /\ \A p : (\E k \in DOMAIN queue' : IsEventOf(queue'[k], p)) <=> (\E k \in DOMAIN queue : IsEventOf(queue[k], p))
<1>1. Includes' = Includes
  BY SameKept
<1>2. ASSUME NEW j PROVE IsScan(j)' <=> IsScan(j)
  BY <1>1 DEF IsScan
<1> QED BY <1>1 DEF ScanToCome, IsScan

(* What leaves the jobs and the crawl alone.                               *)
LEMMA SameRunner ==
  ASSUME sc' = sc, UNCHANGED <<queue, types, job, phase, at>>, NEW p,
         DOMAIN frames' = DOMAIN frames, \A k \in DOMAIN frames : frames[k].left \subseteq frames'[k].left
  PROVE  /\ StaleFollowed' <=> StaleFollowed
         /\ ScanToCome' <=> ScanToCome
         /\ JobComes(p) => JobComes(p)'
         /\ EventToCome(p) /\ p \notin noted => EventToCome(p)'
<1>1. Includes' = Includes /\ \A i : Finds(i, p)' <=> Finds(i, p)
  BY SameKept
<1>2. ScanToCome' <=> ScanToCome
  BY SameQueue
<1>3. StaleFollowed' <=> StaleFollowed
  BY <1>1, <1>2 DEF StaleFollowed, IsScan
<1>4. CrawlComes(p) => CrawlComes(p)'
  BY DEF CrawlComes
<1>5. JobComes(p) => JobComes(p)'
  BY <1>1, <1>4 DEF JobComes
<1> QED BY <1>2, <1>3, <1>5 DEF EventToCome

(* A file changes: there is an event of it, and of what is below it.       *)
LEMMA ChangeKeepsAgree ==
  ASSUME ScanInv, AgreeInv, NEW x \in Sc.changes, Change(x[1], x[2])
  PROVE  AgreeInv'
<1> DEFINE p == x[1]
           c == x[2]
           lost == IF c # Nothing /\ c.ftype = "DIRECTORY" THEN {} ELSE Below(p)
           rest == Without(tree, {p} \union lost)
<1>1. /\ tree' = IF c = Nothing THEN rest ELSE With(rest, p, c)
      /\ noted' = noted \union (IF installs > 0 THEN {p} \union lost ELSE {})
      /\ UNCHANGED <<sc, types, queue, job, phase, at, rows, installs>> /\ undefined = "no" /\ undefined' = undefined
      /\ \/ frames' = frames
         \/ frames' = [i \in DOMAIN frames |->
                         IF frames[i].dir = DirName(p) THEN [frames[i] EXCEPT !.left = @ \union {p}]
                                                       ELSE frames[i]]
  BY DEF Change, config, known
<1> HIDE DEF p, c, lost
<1>2. DOMAIN rest = DOMAIN tree \ ({p} \union lost) /\ \A q \in DOMAIN rest : rest[q] = tree[q]
  BY DEF Without, Restrict
<1> HIDE DEF rest
<1>3. ASSUME NEW q, q \notin {p} \union lost
      PROVE  (q \in DOMAIN tree' <=> q \in DOMAIN tree) /\ (q \in DOMAIN tree => tree'[q] = tree[q])
  <2>1. CASE c = Nothing
    BY <1>1, <1>2, <1>3, <2>1
  <2>2. CASE c # Nothing
    <3>1. tree' = With(rest, p, c)
      BY <1>1, <2>2
    <3>2. DOMAIN tree' = DOMAIN rest \union {p} /\ \A r \in DOMAIN rest \ {p} : tree'[r] = rest[r]
      BY <3>1 DEF With
    <3> QED BY <1>2, <1>3, <3>2
  <2> QED BY <2>1, <2>2
<1>4. DOMAIN frames' = DOMAIN frames /\ \A k \in DOMAIN frames : frames[k].left \subseteq frames'[k].left
  <2>1. CASE frames' = frames
    BY <2>1
  <2>2. CASE frames' = [i \in DOMAIN frames |->
                         IF frames[i].dir = DirName(p) THEN [frames[i] EXCEPT !.left = @ \union {p}]
                                                       ELSE frames[i]]
    <3>1. ASSUME NEW k \in DOMAIN frames PROVE frames[k] \in Frames
      <4>1. frames \in Seq(Frames)
        <5>1. ~ InCrawl => frames = << >>
          BY DEF ScanInv, Crawling
        <5> QED BY <5>1, EmptySeq DEF ScanInv, Crawling
      <4>2. DOMAIN frames = 1 .. Len(frames)
        BY <4>1, LenProperties
      <4> QED BY <3>1, <4>1, <4>2, ElementOfSeq
    <3>2. ASSUME NEW k \in DOMAIN frames PROVE frames[k].left \subseteq frames'[k].left
      <4>1. frames[k] \in Frames
        BY <3>1
      <4>2. [frames[k] EXCEPT !.left = @ \union {p}].left = frames[k].left \union {p}
        BY <4>1 DEF Frames
      <4> QED BY <2>2, <4>2
    <3> QED BY <2>2, <3>2
  <2> QED BY <1>1, <2>1, <2>2
<1>5. ASSUME installs > 0, NEW q \in PossibleNames, IsCared(q) PROVE IsCared(q)'
  <2>1. CASE q \in {p} \union lost
    BY <1>1, <1>5, <2>1 DEF IsCared, EventToCome
  <2>2. CASE q \notin {p} \union lost
    <3>1. RowAgrees(q)' <=> RowAgrees(q)
      BY <1>1, <1>3, <2>2, SameAgrees
    <3>2. /\ ScanToCome' <=> ScanToCome
          /\ JobComes(q) => JobComes(q)'
          /\ EventToCome(q) /\ q \notin noted => EventToCome(q)'
      BY <1>1, <1>4, SameRunner
    <3>3. q \in noted => EventToCome(q)'
      BY <1>1 DEF EventToCome
    <3> QED BY <1>3, <1>5, <2>2, <3>1, <3>2, <3>3 DEF IsCared
  <2> QED BY <2>1, <2>2
<1>6. StaleFollowed' <=> StaleFollowed
  BY <1>1, <1>4, SameRunner
<1> QED BY <1>1, <1>5, <1>6, AgreeBy

(* A job more.                                                             *)
LEMMA JobAppended ==
  ASSUME ScanInv, NEW j \in Jobs, queue' = Append(queue, j)
  PROVE  /\ DOMAIN queue = 1 .. Len(queue) /\ DOMAIN queue' = 1 .. Len(queue) + 1 /\ Len(queue) \in Nat
         /\ queue'[Len(queue) + 1] = j
         /\ \A k \in DOMAIN queue : k \in DOMAIN queue' /\ k < Len(queue) + 1 /\ queue'[k] = queue[k]
<1>1. queue \in Seq(Jobs)
  BY DEF ScanInv, JobsTyped
<1>2. DOMAIN queue = 1 .. Len(queue) /\ Len(queue) \in Nat
  BY <1>1, LenProperties
<1>3. /\ queue' \in Seq(Jobs) /\ Len(queue') = Len(queue) + 1
      /\ \A k \in 1 .. Len(queue) : queue'[k] = queue[k]
      /\ queue'[Len(queue) + 1] = j
  BY <1>1, AppendProperties
<1>4. DOMAIN queue' = 1 .. Len(queue')
  BY <1>3, LenProperties
<1> QED BY <1>2, <1>3, <1>4

(* A configuration is installed: all that is there will be scanned.        *)
LEMMA InstallKeepsAgree ==
  ASSUME ScanInv, AgreeInv, NEW r \in Sc.types, Install(r)
  PROVE  AgreeInv'
<1> DEFINE j == [incl |-> Includes, types |-> types', event |-> FALSE]
           n == Len(queue) + 1
<1>1. /\ UNCHANGED <<sc, tree, noted, job, phase, at, frames, rows>> /\ undefined = "no"
      /\ queue' = Append(queue, j) /\ types' = RequestedTypes(r) /\ installs' = installs + 1
  BY DEF Install, files, runner
<1>2. j \in Jobs /\ sc \in DOMAIN Scenarios /\ installs \in Nat
  <2>1. Includes \in Seq(Patterns)
    BY InScenario DEF ScanInv, TreeTyped
  <2> QED BY <1>1, <2>1 DEF Jobs, InstalledTypes, ScanInv, ConfigTyped, TreeTyped
<1>3. /\ DOMAIN queue = 1 .. Len(queue) /\ DOMAIN queue' = 1 .. Len(queue) + 1 /\ Len(queue) \in Nat
      /\ queue'[n] = j
      /\ \A k \in DOMAIN queue : k \in DOMAIN queue' /\ k < n /\ queue'[k] = queue[k]
  <2> HIDE DEF j
  <2> QED BY <1>1, <1>2, JobAppended
<1>4. PossibleNames' = PossibleNames /\ Includes' = Includes /\ \A p : IsKept(p)' <=> IsKept(p)
  BY <1>1, SameKept
<1>5. n \in DOMAIN queue' /\ queue'[n].types = types' /\ queue'[n].incl = Includes'
  BY <1>3, <1>4
<1>6. ScanToCome'
  BY <1>5 DEF ScanToCome, IsScan
<1>7. StaleFollowed'
  <2>1. ASSUME NEW k \in DOMAIN queue', queue'[k].types # types'
        PROVE  \E l \in DOMAIN queue' : l > k /\ queue'[l].types = types' /\ queue'[l].incl = Includes'
    <3>1. k # n
      BY <1>3, <2>1
    <3>2. n > k
      BY <1>3, <2>1, <3>1
    <3> QED BY <1>5, <3>2
  <2> QED BY <1>6, <2>1 DEF StaleFollowed, IsScan
<1>8. ASSUME NEW p \in PossibleNames, IsKept(p) PROVE IsCared(p)'
  <2>1. CASE p \in DOMAIN tree
    BY <1>1, <1>6, <2>1 DEF IsCared
  <2>2. CASE p \notin DOMAIN tree
    <3>1. CASE p \notin DOMAIN rows
      <4>1. RowAgrees(p)'
        BY <1>1, <2>2, <3>1 DEF RowAgrees, FileExists
      <4> QED BY <4>1 DEF IsCared
    <3>2. CASE p \in DOMAIN rows
      <4>1. installs > 0
        BY <1>2, <3>2 DEF AgreeInv
      <4>2. IsCared(p)
        BY <1>1, <1>8, <4>1 DEF AgreeInv
      <4>3. ~ RowAgrees(p)
        BY <2>2, <3>2 DEF RowAgrees, FileExists
      <4>4. EventToCome(p)
        BY <2>2, <4>2, <4>3 DEF IsCared
      <4>5. EventToCome(p)'
        BY <1>1, <1>3, <4>4 DEF EventToCome
      <4> QED BY <4>5 DEF IsCared
    <3> QED BY <3>1, <3>2
  <2> QED BY <2>1, <2>2
<1>9. installs' # 0
  BY <1>1, <1>2
<1> QED BY <1>4, <1>7, <1>8, <1>9 DEF AgreeInv

(* An event is delivered: the name has a job.                              *)
LEMMA EventKeepsAgree ==
  ASSUME ScanInv, AgreeInv, NEW q \in noted, EventReceived(q)
  PROVE  AgreeInv'
<1> DEFINE j == [incl |-> <<q>>, types |-> types, event |-> TRUE]
           n == Len(queue) + 1
<1>1. /\ UNCHANGED <<sc, tree, types, job, phase, at, frames, rows, undefined, installs>> /\ undefined = "no"
      /\ noted' = noted \ {q}
      /\ queue' = IF Monitored(q) THEN Append(queue, j) ELSE queue
  BY DEF EventReceived, config, runner, known, bounds
<1>2. Includes' = Includes /\ \A p : \A i : Finds(i, p)' <=> Finds(i, p)
  BY <1>1, SameKept
<1>3. ASSUME installs > 0, StaleFollowed, NEW p \in PossibleNames, IsKept(p), IsCared(p),
             \A k \in DOMAIN queue : k \in DOMAIN queue' /\ queue'[k] = queue[k],
             q = p => EventToCome(p)'
      PROVE  IsCared(p)'
  <2>1. RowAgrees(p)' <=> RowAgrees(p)
    BY <1>1, SameAgrees
  <2>2. ScanToCome => ScanToCome'
    BY <1>1, <1>2, <1>3 DEF ScanToCome, IsScan
  <2>3. CrawlComes(p)' <=> CrawlComes(p)
    BY <1>1 DEF CrawlComes
  <2>4. JobComes(p)' <=> JobComes(p)
    BY <1>1, <1>2, <2>3 DEF JobComes
  <2>5. EventToCome(p) => EventToCome(p)'
    <3>1. p \in noted => p \in noted' \/ p = q
      BY <1>1
    <3> QED BY <1>1, <1>3, <3>1 DEF EventToCome
  <2> QED BY <1>1, <1>3, <2>1, <2>2, <2>4, <2>5 DEF IsCared
<1>4. CASE Monitored(q)
  <2>1. j \in Jobs
    <3>1. q \in Patterns /\ installs > 0 /\ types \in InstalledTypes
      BY InScenario DEF ScanInv, TreeTyped, ConfigTyped
    <3>2. <<q>> \in Seq(Patterns)
      BY <3>1
    <3> QED BY <3>1, <3>2 DEF Jobs
  <2>2. /\ DOMAIN queue = 1 .. Len(queue) /\ DOMAIN queue' = 1 .. Len(queue) + 1 /\ Len(queue) \in Nat
        /\ queue'[n] = j
        /\ \A k \in DOMAIN queue : k \in DOMAIN queue' /\ k < n /\ queue'[k] = queue[k]
    <3> HIDE DEF j
    <3> QED BY <1>1, <1>4, <2>1, JobAppended
  <2>3. n \in DOMAIN queue' /\ IsEventOf(queue'[n], q) /\ queue'[n].types = types'
    BY <1>1, <2>2 DEF IsEventOf
  <2> HIDE DEF n, j
  <2>4. EventToCome(q)'
    BY <2>3 DEF EventToCome
  <2>5. StaleFollowed => StaleFollowed'
    <3> SUFFICES ASSUME StaleFollowed PROVE StaleFollowed'
      OBVIOUS
    <3>1. ASSUME NEW k \in DOMAIN queue', queue'[k].types # types'
          PROVE  \E l \in DOMAIN queue' : l > k /\ queue'[l].types = types' /\ queue'[l].incl = Includes'
      <4>1. k \in DOMAIN queue
        <5>1. k # n
          BY <2>3, <3>1
        <5> QED BY <2>2, <3>1, <5>1 DEF n
      <4>2. PICK l \in DOMAIN queue : l > k /\ IsScan(queue[l])
        BY <1>1, <2>2, <3>1, <4>1 DEF StaleFollowed
      <4>3. l \in DOMAIN queue' /\ queue'[l].types = types' /\ queue'[l].incl = Includes'
        BY <1>1, <1>2, <2>2, <4>2 DEF IsScan
      <4> QED BY <4>2, <4>3
    <3>2. ScanToCome => ScanToCome'
      BY <1>1, <1>2, <2>2 DEF ScanToCome, IsScan
    <3> QED BY <1>1, <3>1, <3>2 DEF StaleFollowed, IsScan
  <2> QED BY <1>1, <1>3, <2>2, <2>4, <2>5, AgreeBy
<1>5. CASE ~ Monitored(q)
  <2>1. queue' = queue /\ DOMAIN frames' = DOMAIN frames /\ \A k \in DOMAIN frames : frames[k].left \subseteq frames'[k].left
    BY <1>1, <1>5
  <2>2. StaleFollowed' <=> StaleFollowed
    BY <1>1, <2>1, SameRunner
  <2>3. \A p : IsKept(p) => p # q
    BY <1>5 DEF IsKept
  <2> QED BY <1>1, <1>3, <2>1, <2>2, <2>3, AgreeBy
<1> QED BY <1>4, <1>5

(* The job that waits longest begins.                                      *)
LEMMA TakeJobKeepsAgree ==
  ASSUME ScanInv, AgreeInv, TakeJob
  PROVE  AgreeInv'
<1>1. /\ undefined = "no" /\ phase = "idle" /\ queue # << >> /\ job' = Head(queue) /\ queue' = Tail(queue)
      /\ phase' = "include" /\ UNCHANGED <<sc, tree, noted, types, rows, undefined, installs>>
  BY DEF TakeJob, files, config, known, bounds
<1>2. /\ DOMAIN queue = 1 .. Len(queue) /\ DOMAIN queue' = 1 .. Len(queue) - 1 /\ Len(queue) \in Nat \ {0}
      /\ job' = queue[1] /\ 1 \in DOMAIN queue
      /\ \A k \in DOMAIN queue' : queue'[k] = queue[k + 1]
  <2>1. queue \in Seq(Jobs)
    BY DEF ScanInv, JobsTyped
  <2>2. /\ Tail(queue) \in Seq(Jobs) /\ Len(Tail(queue)) = Len(queue) - 1
        /\ \A k \in 1 .. Len(Tail(queue)) : Tail(queue)[k] = queue[k + 1]
    BY <1>1, <2>1, HeadTailProperties
  <2>3. Len(queue) \in Nat \ {0} /\ DOMAIN queue = 1 .. Len(queue)
    BY <1>1, <2>1, LenProperties, EmptySeq
  <2>4. DOMAIN Tail(queue) = 1 .. Len(queue) - 1
    BY <2>2, LenProperties
  <2> QED BY <1>1, <2>1, <2>2, <2>3, <2>4
<1>3. \A k \in DOMAIN queue : k # 1 => k - 1 \in DOMAIN queue' /\ queue'[k - 1] = queue[k]
  <2>1. ASSUME NEW k \in DOMAIN queue, k # 1 PROVE k - 1 \in DOMAIN queue' /\ (k - 1) + 1 = k
    BY <1>2, <2>1
  <2> QED BY <1>2, <2>1
<1>4. Includes' = Includes /\ \A p : \A i : Finds(i, p)' <=> Finds(i, p)
  BY <1>1, SameKept
<1>5. StaleFollowed => StaleFollowed'
  <2> SUFFICES ASSUME StaleFollowed PROVE StaleFollowed'
    OBVIOUS
  <2>1. ASSUME NEW k \in DOMAIN queue', queue'[k].types # types'
        PROVE  \E l \in DOMAIN queue' : l > k /\ queue'[l].types = types' /\ queue'[l].incl = Includes'
    <3>1. k + 1 \in DOMAIN queue /\ queue[k + 1].types # types
      BY <1>1, <1>2, <2>1
    <3>2. PICK l \in DOMAIN queue : l > k + 1 /\ IsScan(queue[l])
      BY <3>1 DEF StaleFollowed
    <3>3. l # 1 /\ l - 1 > k
      BY <1>2, <3>2
    <3>4. l - 1 \in DOMAIN queue' /\ queue'[l - 1].types = types' /\ queue'[l - 1].incl = Includes'
      BY <1>1, <1>3, <1>4, <3>2, <3>3 DEF IsScan
    <3> QED BY <3>3, <3>4
  <2>2. ASSUME job'.types # types' PROVE ScanToCome'
    <3>1. queue[1].types # types
      BY <1>1, <1>2, <2>2
    <3>2. PICK l \in DOMAIN queue : l > 1 /\ IsScan(queue[l])
      BY <1>2, <3>1 DEF StaleFollowed
    <3>3. l - 1 \in DOMAIN queue' /\ queue'[l - 1].types = types' /\ queue'[l - 1].incl = Includes'
      BY <1>1, <1>2, <1>3, <1>4, <3>2 DEF IsScan
    <3> QED BY <3>3 DEF ScanToCome, IsScan
  <2> QED BY <2>1, <2>2 DEF StaleFollowed, IsScan
<1>6. ASSUME NEW p \in PossibleNames, IsKept(p), IsCared(p) PROVE IsCared(p)'
  <2>1. CASE RowAgrees(p)
    BY <1>1, <2>1, SameAgrees DEF IsCared
  <2>2. CASE EventToCome(p)
    <3>1. CASE p \in noted
      BY <1>1, <3>1 DEF IsCared, EventToCome
    <3>2. ASSUME NEW k \in DOMAIN queue, IsEventOf(queue[k], p) PROVE EventToCome(p)'
      <4>1. CASE k = 1
        <5>1. phase' # "idle" /\ IsEventOf(job', p)
          BY <1>1, <1>2, <3>2, <4>1
        <5> QED BY <5>1 DEF EventToCome
      <4>2. CASE k # 1
        <5>1. k - 1 \in DOMAIN queue' /\ IsEventOf(queue'[k - 1], p)
          BY <1>3, <3>2, <4>2
        <5> QED BY <5>1 DEF EventToCome
      <4> QED BY <4>1, <4>2
    <3> QED BY <1>1, <2>2, <3>1, <3>2 DEF IsCared, EventToCome
  <2>3. CASE p \in DOMAIN tree /\ ScanToCome
    <3>1. PICK k \in DOMAIN queue : IsScan(queue[k])
      BY <2>3 DEF ScanToCome
    <3>2. CASE k = 1
      <4>1. PICK i \in DOMAIN Includes : Finds(Includes[i], p)
        BY <1>6 DEF IsKept, Finds
      <4>2. job'.types = types' /\ job'.incl = Includes
        BY <1>1, <1>2, <3>1, <3>2 DEF IsScan
      <4>3. i \in DOMAIN job'.incl /\ Finds(job'.incl[i], p)
        BY <4>1, <4>2
      <4>4. JobComes(p)'
        BY <1>1, <4>2, <4>3 DEF JobComes, Finds, EscapedDir
      <4> QED BY <1>1, <2>3, <4>4 DEF IsCared
    <3>3. CASE k # 1
      <4>1. k - 1 \in DOMAIN queue' /\ queue'[k - 1].types = types' /\ queue'[k - 1].incl = Includes'
        BY <1>1, <1>3, <1>4, <3>1, <3>3 DEF IsScan
      <4>2. ScanToCome'
        BY <4>1 DEF ScanToCome, IsScan
      <4> QED BY <1>1, <2>3, <4>2 DEF IsCared
    <3> QED BY <3>2, <3>3
  <2>4. ~ JobComes(p)
    BY <1>1 DEF JobComes
  <2> QED BY <1>6, <2>1, <2>2, <2>3, <2>4 DEF IsCared
<1> QED BY <1>1, <1>5, <1>6, AgreeBy

(* A job with nothing left to do is the job of no name.                    *)
LEMMA EndJobKeepsAgree ==
  ASSUME ScanInv, AgreeInv, EndJob
  PROVE  AgreeInv'
<1>1. /\ undefined = "no" /\ phase = "include" /\ job.incl = << >> /\ phase' = "idle"
      /\ UNCHANGED <<sc, tree, noted, types, queue, rows, undefined, installs>>
  BY DEF EndJob, files, config, known, bounds
<1>2. ScanToCome' <=> ScanToCome
  BY <1>1, SameQueue
<1>3. StaleFollowed => StaleFollowed'
  <2>1. Includes' = Includes
    BY <1>1, SameKept
  <2> QED BY <1>1, <2>1 DEF StaleFollowed, IsScan
<1>4. frames = << >>
  BY <1>1 DEF ScanInv, Crawling, InCrawl
<1>5. ASSUME NEW p \in PossibleNames, IsCared(p) PROVE IsCared(p)'
  <2>1. RowAgrees(p)' <=> RowAgrees(p)
    BY <1>1, SameAgrees
  <2>2. ~ IsEventOf(job, p)
    BY <1>1 DEF IsEventOf
  <2>3. EventToCome(p) => EventToCome(p)'
    BY <1>1, <2>2 DEF EventToCome
  <2>4. ~ JobComes(p)
    BY <1>1, <1>4 DEF JobComes, CrawlComes
  <2> QED BY <1>1, <1>2, <1>5, <2>1, <2>3, <2>4 DEF IsCared
<1> QED BY <1>1, <1>3, <1>5, AgreeBy

-----------------------------------------------------------------------------
(* The includes, and the rows at rest                                      *)

(* What is left of the includes after the first.                           *)
LEMMA NextIncludeIs ==
  ASSUME ScanInv, phase # "idle", job.incl # << >>
  PROVE  /\ NextInclude.types = job.types /\ Head(job.incl) = job.incl[1]
         /\ \A k \in DOMAIN job.incl : k # 1 => /\ k > 1 /\ k - 1 \in DOMAIN NextInclude.incl
                                                /\ NextInclude.incl[k - 1] = job.incl[k]
<1>1. job \in Jobs /\ job.incl \in Seq(Patterns)
  BY RunningJob
<1>2. /\ DOMAIN job.incl = 1 .. Len(job.incl) /\ Len(job.incl) \in Nat \ {0}
      /\ Tail(job.incl) \in Seq(Patterns) /\ Len(Tail(job.incl)) = Len(job.incl) - 1
      /\ \A k \in 1 .. Len(Tail(job.incl)) : Tail(job.incl)[k] = job.incl[k + 1]
  BY <1>1, LenProperties, EmptySeq, HeadTailProperties
<1>3. DOMAIN Tail(job.incl) = 1 .. Len(job.incl) - 1
  BY <1>2, LenProperties
<1>4. NextInclude.types = job.types
  BY <1>1 DEF NextInclude, Jobs
<1>5. ASSUME NEW k \in DOMAIN job.incl, k # 1
      PROVE  k > 1 /\ k - 1 \in DOMAIN NextInclude.incl /\ NextInclude.incl[k - 1] = job.incl[k]
  <2>1. Len(job.incl) # 1 /\ k > 1 /\ k - 1 \in 1 .. Len(job.incl) - 1 /\ (k - 1) + 1 = k
    BY <1>2, <1>5
  <2>2. NextInclude.incl = Tail(job.incl)
    BY <1>1, <2>1 DEF NextInclude, Jobs
  <2> QED BY <1>2, <1>3, <2>1, <2>2
<1> QED BY <1>1, <1>4, <1>5

(* A name that is kept is its own pattern.                                 *)
LEMMA KeptName ==
  ASSUME ScanInv, NEW p \in PossibleNames, IsKept(p)
  PROVE  /\ IsName(p) /\ p # <<Sep>> /\ UnescapePattern(p) = p /\ FirstUnescapedSpecialChar(p) = 0
         /\ IsEventOf(job, p) => Head(job.incl) = p /\ job.incl # << >>
<1>1. IsName(p) /\ p \in Seq(ToSet(p))
  BY InScenario, NameIsSequence DEF ScanInv, TreeTyped
<1>2. p # <<Sep>> /\ ~ HasEscape(p) /\ FirstUnescapedSpecialChar(p) = 0
  BY DEF IsKept, PlainName
<1>3. UnescapePattern(p) = p
  BY <1>1, <1>2, PlainUnescaped
<1>4. ASSUME IsEventOf(job, p) PROVE Head(job.incl) = p /\ job.incl # << >>
  BY <1>4 DEF IsEventOf
<1> QED BY <1>1, <1>2, <1>3, <1>4

(* What becomes of a name that is looked at, and of another.               *)
LEMMA LookedAtIsCared ==
  ASSUME ScanInv, phase # "idle", StaleFollowed, NEW p, Process(p, Found(p)), Collected(p),
         UNCHANGED <<sc, types, queue>>, undefined = "no", undefined' = "no"
  PROVE  IsCared(p)'
<1>1. CASE job.types = types \/ ~ FileExists(p)
  <2>1. RowAgrees(p)' \/ p \in noted'
    BY <1>1, LookedAt
  <2> QED BY <2>1 DEF IsCared, EventToCome
<1>2. CASE job.types # types /\ FileExists(p)
  <2>1. ScanToCome'
    BY <1>2, SameQueue DEF StaleFollowed
  <2>2. p \in DOMAIN tree'
    BY <1>2 DEF FileExists, Collected
  <2> QED BY <2>1, <2>2 DEF IsCared
<1> QED BY <1>1, <1>2

(* A literal include is a name to look at.                                 *)
LEMMA RunLiteralKeepsAgree ==
  ASSUME ScanInv, AgreeInv, RunLiteral
  PROVE  AgreeInv'
<1> DEFINE i == Head(job.incl)
           q == UnescapePattern(i)
<1>1. /\ undefined = "no" /\ phase = "include" /\ job.incl # << >> /\ job' = NextInclude
      /\ FirstUnescapedSpecialChar(i) = 0
      /\ UNCHANGED <<sc, types, queue, phase, at, frames, installs>>
      /\ undefined' = "no" => Process(q, Found(q)) /\ Collected(q)
  BY DEF RunLiteral, config, bounds
<1> HIDE DEF q, i
<1>2. installs > 0 /\ sc \in DOMAIN Scenarios /\ i \in Patterns
  BY <1>1, RunningJob DEF ScanInv, TreeTyped, i
<1>3. /\ job'.types = job.types /\ i = job.incl[1]
      /\ \A k \in DOMAIN job.incl : k # 1 => k - 1 \in DOMAIN job'.incl /\ job'.incl[k - 1] = job.incl[k]
  BY <1>1, NextIncludeIs DEF i
<1>4. Includes' = Includes /\ \A p : \A j : Finds(j, p)' <=> Finds(j, p)
  BY <1>1, SameKept
<1>5. ScanToCome' <=> ScanToCome
  BY <1>1, SameQueue
<1>6. StaleFollowed => StaleFollowed'
  BY <1>1, <1>3, <1>4, <1>5 DEF StaleFollowed, IsScan
<1>7. frames = << >>
  BY <1>1 DEF ScanInv, Crawling, InCrawl
<1>8. ASSUME undefined' = "no", StaleFollowed, NEW p \in PossibleNames, IsKept(p), IsCared(p) PROVE IsCared(p)'
  <2>1. CASE p = q
    BY <1>1, <1>8, <2>1, LookedAtIsCared
  <2>2. CASE p # q
    <3>1. (RowAgrees(p)' <=> RowAgrees(p)) /\ DOMAIN tree' = DOMAIN tree /\ noted \subseteq noted'
      BY <1>1, <1>8, <2>2, OthersAgree
    <3>2. ~ IsEventOf(job, p)
      BY <1>8, <2>2, KeptName DEF q, i
    <3>3. EventToCome(p) => EventToCome(p)'
      BY <1>1, <3>1, <3>2 DEF EventToCome
    <3>4. ASSUME JobComes(p) PROVE JobComes(p)'
      <4>1. PICK k \in DOMAIN job.incl : Finds(job.incl[k], p)
        BY <1>1, <1>7, <3>4 DEF JobComes, CrawlComes
      <4>2. k # 1
        <5> SUFFICES ASSUME k = 1 PROVE FALSE
          OBVIOUS
        <5>1. Matches(p, i)
          BY <1>3, <4>1 DEF Finds
        <5>2. p \in Seq(ToSet(p)) /\ i \in Seq(ToSet(i))
          BY <1>2, <1>8, KeptName, NameIsSequence, PatternIsSequence
        <5>3. UnescapePattern(i) = p
          BY <1>1, <5>1, <5>2, LiteralMatches
        <5> QED BY <2>2, <5>3 DEF q
      <4>3. k - 1 \in DOMAIN job'.incl /\ Finds(job'.incl[k - 1], p)
        BY <1>3, <4>1, <4>2
      <4> QED BY <1>1, <1>3, <3>4, <4>3 DEF JobComes, Finds, EscapedDir
    <3> QED BY <1>5, <1>8, <3>1, <3>3, <3>4 DEF IsCared
  <2> QED BY <2>1, <2>2
<1> QED BY <1>1, <1>2, <1>6, <1>8, AgreeBy

(* A pattern whose turn it is finds its directory, and what is in it.      *)
LEMMA TopIsCrawled ==
  ASSUME ScanInv, RunPattern, NEW p \in DOMAIN tree, p # <<Sep>>,
         Matches(p, Head(job.incl)), ~ EscapedDir(Head(job.incl))
  PROVE  IsDirectory(TopDir(Head(job.incl))) /\ CrawlComes(p)'
<1> DEFINE i == Head(job.incl)
<1>1. /\ phase = "include" /\ job.incl # << >> /\ FirstUnescapedSpecialChar(i) # 0
      /\ IsDirectory(TopDir(i)) => phase' = "open" /\ at' = TopDir(i)
  BY DEF RunPattern
<1>2. Matches(p, i) /\ ~ EscapedDir(i)
  OBVIOUS
<1> HIDE DEF i
<1>3. sc \in DOMAIN Scenarios /\ i \in Patterns /\ p \in PossibleNames
  BY <1>1, RunningJob DEF ScanInv, TreeTyped, i
<1>4. IsName(p)
  BY <1>3, InScenario
<1>5. PICK n \in DOMAIN p : TopDir(i) = Upto(p, n) /\ IsBelow(p, Upto(p, n))
  BY <1>1, <1>2, <1>3, <1>4, TopMatches
<1>6. IsBelow(p, TopDir(i)) /\ TopDir(i) \in PossibleNames
  BY <1>3, <1>5, InScenario
<1>7. IsDirectory(TopDir(i))
  BY <1>6 DEF ScanInv, TreeIsWhole
<1>8. CrawlComes(p)'
  BY <1>1, <1>6, <1>7 DEF CrawlComes
<1> QED BY <1>7, <1>8 DEF i

(* What a pattern finds is below its top directory.                        *)
LEMMA RunPatternKeepsAgree ==
  ASSUME ScanInv, AgreeInv, RunPattern
  PROVE  AgreeInv'
<1> DEFINE i == Head(job.incl)
<1>1. /\ undefined = "no" /\ phase = "include" /\ job.incl # << >> /\ FirstUnescapedSpecialChar(i) # 0
      /\ UNCHANGED <<sc, tree, noted, types, queue, frames, rows, undefined, installs>>
      /\ IF IsDirectory(TopDir(i)) THEN phase' = "open" /\ at' = TopDir(i) /\ job' = job
                                   ELSE job' = NextInclude /\ phase' = phase /\ at' = at
  BY DEF RunPattern, files, config, known, bounds
<1> HIDE DEF i
<1>2. installs > 0 /\ sc \in DOMAIN Scenarios /\ i \in Patterns
  BY <1>1, RunningJob DEF ScanInv, TreeTyped, i
<1>3. /\ NextInclude.types = job.types /\ i = job.incl[1]
      /\ \A k \in DOMAIN job.incl : k # 1 => /\ k > 1 /\ k - 1 \in DOMAIN NextInclude.incl
                                             /\ NextInclude.incl[k - 1] = job.incl[k]
  BY <1>1, NextIncludeIs DEF i
<1>4. Includes' = Includes /\ \A p : \A j : Finds(j, p)' <=> Finds(j, p)
  BY <1>1, SameKept
<1>5. ScanToCome' <=> ScanToCome
  BY <1>1, SameQueue
<1>6. job'.types = job.types /\ phase' # "idle"
  BY <1>1, <1>3
<1>7. StaleFollowed => StaleFollowed'
  BY <1>1, <1>4, <1>5, <1>6 DEF StaleFollowed, IsScan
<1>8. frames = << >>
  BY <1>1 DEF ScanInv, Crawling, InCrawl
<1>9. ASSUME NEW p \in PossibleNames, IsKept(p), IsCared(p) PROVE IsCared(p)'
  <2>1. RowAgrees(p)' <=> RowAgrees(p)
    BY <1>1, SameAgrees
  <2>2. ~ IsEventOf(job, p)
    BY <1>1, <1>9, KeptName DEF i
  <2>3. EventToCome(p) => EventToCome(p)'
    BY <1>1, <2>2 DEF EventToCome
  <2>4. ASSUME p \in DOMAIN tree, JobComes(p) PROVE JobComes(p)'
    <3>1. PICK k \in DOMAIN job.incl : Finds(job.incl[k], p)
      BY <1>1, <1>8, <2>4 DEF JobComes, CrawlComes
    <3>2. CASE k = 1
      <4>1. Matches(p, i) /\ ~ EscapedDir(i) /\ p # <<Sep>>
        BY <1>3, <1>9, <3>1, <3>2, KeptName DEF Finds
      <4>2. CrawlComes(p)'
        BY <2>4, <4>1, TopIsCrawled DEF i
      <4> QED BY <1>1, <1>6, <2>4, <4>2 DEF JobComes
    <3>3. CASE k # 1
      <4>1. CASE IsDirectory(TopDir(i))
        <5>1. job' = job /\ phase' = "open" /\ k > 1
          BY <1>1, <1>3, <3>3, <4>1
        <5> QED BY <1>1, <1>4, <2>4, <3>1, <5>1 DEF JobComes
      <4>2. CASE ~ IsDirectory(TopDir(i))
        <5>1. job' = NextInclude /\ phase' = "include"
          BY <1>1, <4>2
        <5>2. k - 1 \in DOMAIN job'.incl /\ Finds(job'.incl[k - 1], p)
          BY <1>3, <3>1, <3>3, <5>1
        <5> QED BY <1>1, <1>6, <2>4, <5>1, <5>2 DEF JobComes, Finds, EscapedDir
      <4> QED BY <4>1, <4>2
    <3> QED BY <3>2, <3>3
  <2> QED BY <1>1, <1>5, <1>9, <2>1, <2>3, <2>4 DEF IsCared
<1> QED BY <1>1, <1>2, <1>7, <1>9, AgreeBy

-----------------------------------------------------------------------------
(* The crawl, and the rows at rest                                         *)

(* A crawl goes on with the job.                                           *)
LEMMA SameJob ==
  ASSUME sc' = sc, UNCHANGED <<queue, types, job>>, InCrawl, phase' # "idle", noted \subseteq noted'
  PROVE  /\ StaleFollowed => StaleFollowed'
         /\ ScanToCome' <=> ScanToCome
         /\ \A p : EventToCome(p) => EventToCome(p)'
         /\ \A p : JobComes(p) /\ (CrawlComes(p) => CrawlComes(p)') => JobComes(p)'
<1>1. Includes' = Includes /\ \A p : \A i : Finds(i, p)' <=> Finds(i, p)
  BY SameKept
<1>2. ScanToCome' <=> ScanToCome
  BY SameQueue
<1>3. StaleFollowed => StaleFollowed'
  BY <1>1, <1>2 DEF StaleFollowed, IsScan, InCrawl
<1>4. ASSUME NEW p, EventToCome(p) PROVE EventToCome(p)'
  BY <1>4 DEF EventToCome
<1>5. ASSUME NEW p, JobComes(p), CrawlComes(p) => CrawlComes(p)' PROVE JobComes(p)'
  <2>1. CASE CrawlComes(p)
    BY <1>5, <2>1 DEF JobComes
  <2>2. ASSUME NEW k \in DOMAIN job.incl, Finds(job.incl[k], p), phase = "include" \/ k > 1 PROVE JobComes(p)'
    <3>1. k > 1 /\ Finds(job.incl[k], p)'
      BY <1>1, <2>2 DEF InCrawl
    <3> QED BY <1>5, <2>2, <3>1 DEF JobComes
  <2> QED BY <1>5, <2>1, <2>2 DEF JobComes
<1> QED BY <1>2, <1>3, <1>4, <1>5

(* A crawl that takes an entry still comes to everything that is neither   *)
(* the entry nor below it.                                                 *)
LEMMA EntryTaken ==
  ASSUME ScanInv, undefined = "no", phase = "entry", NEW q \in Last(frames).left,
         \/ frames' = [frames EXCEPT ![Len(frames)].left = @ \ {q}]
         \/ \E e : frames' = [frames EXCEPT ![Len(frames)].left = @ \ {q}, ![Len(frames)].elem = e],
         NEW p, CrawlComes(p), p # q, ~ IsBelow(p, q)
  PROVE  CrawlComes(p)'
<1> DEFINE n == Len(frames)
<1>1. /\ frames \in Seq(Frames) /\ n \in Nat \ {0} /\ n \in DOMAIN frames
      /\ DOMAIN frames = 1 .. Len(frames)
  <2>1. frames \in Seq(Frames) /\ Len(frames) \in Nat \ {0}
    BY AtEntry
  <2> QED BY <2>1, LenProperties
<1>2. PICK k \in DOMAIN frames : \E r \in frames[k].left : r = p \/ IsBelow(p, r)
  BY DEF CrawlComes
<1>3. PICK r \in frames[k].left : r = p \/ IsBelow(p, r)
  BY <1>2
<1>4. r # q
  BY <1>3
<1>5. frames[n] \in Frames
  BY <1>1, ElementOfSeq
<1>6. k \in DOMAIN frames' /\ r \in frames'[k].left
  <2>1. CASE k # n
    <3> HIDE DEF n
    <3>1. \/ frames' = [frames EXCEPT ![n].left = @ \ {q}]
          \/ \E e : frames' = [frames EXCEPT ![n].left = @ \ {q}, ![n].elem = e]
      BY DEF n
    <3> QED BY <1>3, <2>1, <3>1
  <2>2. CASE k = n
    <3>1. \/ frames' = [frames EXCEPT ![n].left = @ \ {q}]
          \/ \E e : frames' = [frames EXCEPT ![n].left = @ \ {q}, ![n].elem = e]
      OBVIOUS
    <3> HIDE DEF n
    <3>2. CASE frames' = [frames EXCEPT ![n].left = @ \ {q}]
      <4>1. frames'[n] = [frames[n] EXCEPT !.left = @ \ {q}] /\ n \in DOMAIN frames'
        BY <1>1, <3>2
      <4>2. frames'[n].left = frames[n].left \ {q}
        BY <1>5, <4>1 DEF Frames
      <4> QED BY <1>3, <1>4, <2>2, <4>1, <4>2
    <3>3. ASSUME NEW e, frames' = [frames EXCEPT ![n].left = @ \ {q}, ![n].elem = e]
          PROVE  k \in DOMAIN frames' /\ r \in frames'[k].left
      <4>1. frames'[n] = [frames[n] EXCEPT !.left = @ \ {q}, !.elem = e] /\ n \in DOMAIN frames'
        BY <1>1, <3>3
      <4>2. frames'[n].left = frames[n].left \ {q}
        BY <1>5, <4>1 DEF Frames
      <4> QED BY <1>3, <1>4, <2>2, <4>1, <4>2
    <3> QED BY <3>1, <3>2, <3>3
  <2> QED BY <2>1, <2>2
<1> QED BY <1>3, <1>6 DEF CrawlComes

(* The directory is opened: what is below it is below one of its entries.  *)
LEMMA OpenComes ==
  ASSUME ScanInv, Open, undefined' = "no", NEW p \in DOMAIN tree, CrawlComes(p)
  PROVE  CrawlComes(p)'
<1> DEFINE new == [dir |-> at, left |-> Entries(at), elem |-> "unset"]
           n == Len(frames) + 1
<1>1. phase = "open" /\ frames' = Append(frames, new)
  BY DEF Open
<1>2. frames \in Seq(Frames) /\ at \in PossibleNames
  BY <1>1 DEF ScanInv, Crawling, InCrawl, AtTop
<1>3. DOMAIN frames = 1 .. Len(frames) /\ Len(frames) \in Nat /\ new.left = Entries(at)
  BY <1>2, LenProperties
<1> HIDE DEF new
<1>4. /\ DOMAIN frames' = 1 .. n /\ frames'[n] = new
      /\ \A k \in DOMAIN frames : k \in DOMAIN frames' /\ frames'[k] = frames[k]
  BY <1>1, <1>2, <1>3
<1>5. CASE IsBelow(p, at)
  <2>1. \E q \in Entries(at) : q = p \/ IsBelow(p, q)
    BY <1>2, <1>5, SomeEntry DEF ScanInv
  <2>2. n \in DOMAIN frames' /\ frames'[n].left = Entries(at)
    BY <1>3, <1>4
  <2> QED BY <2>1, <2>2 DEF CrawlComes
<1>6. CASE ~ IsBelow(p, at)
  <2>1. PICK k \in DOMAIN frames : \E q \in frames[k].left : q = p \/ IsBelow(p, q)
    BY <1>6 DEF CrawlComes
  <2>2. k \in DOMAIN frames' /\ frames'[k] = frames[k]
    BY <1>4
  <2> QED BY <2>1, <2>2 DEF CrawlComes
<1> QED BY <1>5, <1>6

(* The entry that was looked at is a directory if something is below it.   *)
LEMMA EntryTypeComes ==
  ASSUME ScanInv, EntryType, NEW p \in DOMAIN tree, CrawlComes(p)
  PROVE  CrawlComes(p)'
<1>1. /\ phase = "type" /\ phase' = IF IsDirectory(at) THEN "open" ELSE "entry"
      /\ at' = at /\ frames' = frames
  BY DEF EntryType
<1>2. at \in PossibleNames
  BY <1>1 DEF ScanInv, Crawling, InTop
<1>3. IsBelow(p, at) => phase' = "open"
  BY <1>1, <1>2 DEF ScanInv, TreeIsWhole
<1> QED BY <1>1, <1>3 DEF CrawlComes

(* Nothing is left of the directory that is closed: what a crawl comes to  *)
(* is in one of the others.                                                *)
LEMMA EndCrawlComes ==
  ASSUME ScanInv, EndCrawl, NEW p, CrawlComes(p)
  PROVE  Len(frames) # 1 /\ CrawlComes(p)'
<1> DEFINE n == Len(frames)
<1>1. /\ phase = "entry" /\ Last(frames).left = {} /\ frames' = Front(frames)
      /\ frames \in Seq(Frames) /\ frames # << >>
  BY DEF EndCrawl, ScanInv, Crawling, InCrawl
<1>2. /\ n \in Nat \ {0} /\ DOMAIN frames = 1 .. n /\ frames[n].left = {}
      /\ frames' = SubSeq(frames, 1, n - 1)
  <2>1. n \in Nat /\ n # 0 /\ DOMAIN frames = 1 .. n
    BY <1>1, EmptySeq, LenProperties
  <2> QED BY <1>1, <2>1 DEF Last, Front
<1>3. PICK k \in DOMAIN frames : \E q \in frames[k].left : q = p \/ IsBelow(p, q)
  BY <1>1 DEF CrawlComes
<1>4. k \in 1 .. n - 1 /\ n # 1
  <2>1. k # n /\ k \in 1 .. n /\ n \in Nat
    BY <1>2, <1>3
  <2> HIDE DEF n
  <2> QED BY <2>1
<1>5. /\ 1 \in 1 .. n + 1 /\ n - 1 \in 1 - 1 .. n /\ (n - 1) + 1 - 1 = n - 1 /\ 1 + k - 1 = k
  BY <1>2, <1>4
<1>6. k \in DOMAIN frames' /\ frames'[k] = frames[k]
  <2>1. /\ frames' \in Seq(Frames) /\ Len(frames') = (n - 1) + 1 - 1
        /\ \A l \in 1 .. (n - 1) + 1 - 1 : frames'[l] = frames[1 + l - 1]
    BY <1>1, <1>2, <1>5, PartOf
  <2>2. DOMAIN frames' = 1 .. n - 1
    BY <1>5, <2>1, LenProperties
  <2>3. frames'[k] = frames[1 + k - 1]
    BY <1>4, <1>5, <2>1
  <2> QED BY <1>4, <1>5, <2>2, <2>3
<1> QED BY <1>3, <1>4, <1>6 DEF CrawlComes

(* After an entry was taken the crawl comes to what is below it.           *)
LEMMA TookComes ==
  ASSUME ScanInv, undefined = "no", phase = "entry", NEW q \in Last(frames).left, NEW e, Took(q, e),
         NEW p, CrawlComes(p), p # q
  PROVE  CrawlComes(p)'
<1>1. phase' = "type" /\ at' = q
      /\ frames' = [frames EXCEPT ![Len(frames)].left = @ \ {q}, ![Len(frames)].elem = e]
  BY DEF Took
<1>2. CASE IsBelow(p, q)
  BY <1>1, <1>2 DEF CrawlComes
<1>3. CASE ~ IsBelow(p, q)
  BY <1>1, <1>3, EntryTaken
<1> QED BY <1>2, <1>3

(* An entry that is gone is no file, and nothing is below it.              *)
LEMMA MissingComes ==
  ASSUME ScanInv, NEW q, CrawlMissing(q), NEW p \in DOMAIN tree, CrawlComes(p)
  PROVE  CrawlComes(p)'
<1>1. /\ undefined = "no" /\ phase = "entry" /\ q \in Last(frames).left /\ q \notin DOMAIN tree
      /\ frames' = [frames EXCEPT ![Len(frames)].left = @ \ {q}]
  BY DEF CrawlMissing
<1>2. q \in PossibleNames
  BY <1>1, AtEntry DEF InTop
<1>3. p # q /\ ~ IsBelow(p, q)
  BY <1>1, <1>2 DEF ScanInv, TreeIsWhole, IsDirectory
<1> QED BY <1>1, <1>3, EntryTaken

(* What is opened is crawled.                                              *)
LEMMA OpenKeepsAgree ==
  ASSUME ScanInv, AgreeInv, Open
  PROVE  AgreeInv'
<1>1. /\ undefined = "no" /\ phase = "open" /\ phase' = "entry"
      /\ UNCHANGED <<sc, tree, noted, types, queue, job, rows, installs>>
  BY DEF Open, files, config, bounds
<1>2. /\ StaleFollowed => StaleFollowed'
      /\ ScanToCome' <=> ScanToCome
      /\ \A p : EventToCome(p) => EventToCome(p)'
      /\ \A p : JobComes(p) /\ (CrawlComes(p) => CrawlComes(p)') => JobComes(p)'
  BY <1>1, SameJob DEF InCrawl
<1>3. ASSUME undefined' = "no", NEW p \in PossibleNames, IsCared(p) PROVE IsCared(p)'
  <2>1. RowAgrees(p)' <=> RowAgrees(p)
    BY <1>1, SameAgrees
  <2>2. p \in DOMAIN tree /\ CrawlComes(p) => CrawlComes(p)'
    BY <1>3, OpenComes
  <2> QED BY <1>1, <1>2, <1>3, <2>1, <2>2 DEF IsCared
<1> QED BY <1>1, <1>2, <1>3, RunningJob, AgreeBy

(* The entry that was looked at is opened if it is a directory.            *)
LEMMA EntryTypeKeepsAgree ==
  ASSUME ScanInv, AgreeInv, EntryType
  PROVE  AgreeInv'
<1>1. /\ undefined = "no" /\ phase = "type" /\ phase' = IF IsDirectory(at) THEN "open" ELSE "entry"
      /\ UNCHANGED <<sc, tree, noted, types, queue, job, at, frames, rows, undefined, installs>>
  BY DEF EntryType, files, config, known, bounds
<1>2. /\ StaleFollowed => StaleFollowed'
      /\ ScanToCome' <=> ScanToCome
      /\ \A p : EventToCome(p) => EventToCome(p)'
      /\ \A p : JobComes(p) /\ (CrawlComes(p) => CrawlComes(p)') => JobComes(p)'
  BY <1>1, SameJob DEF InCrawl
<1>3. ASSUME NEW p \in PossibleNames, IsCared(p) PROVE IsCared(p)'
  <2>1. RowAgrees(p)' <=> RowAgrees(p)
    BY <1>1, SameAgrees
  <2>2. p \in DOMAIN tree /\ CrawlComes(p) => CrawlComes(p)'
    BY EntryTypeComes
  <2> QED BY <1>1, <1>2, <1>3, <2>1, <2>2 DEF IsCared
<1> QED BY <1>1, <1>2, <1>3, RunningJob, AgreeBy

(* Nothing is left of the directory that is closed.                        *)
LEMMA EndCrawlKeepsAgree ==
  ASSUME ScanInv, AgreeInv, EndCrawl
  PROVE  AgreeInv'
<1>1. /\ undefined = "no" /\ phase = "entry" /\ Last(frames).left = {} /\ frames' = Front(frames)
      /\ IF Len(frames) = 1 THEN phase' = "include" /\ job' = NextInclude ELSE UNCHANGED <<phase, job>>
      /\ UNCHANGED <<sc, tree, noted, types, queue, at, rows, undefined, installs>>
  BY DEF EndCrawl, files, config, bounds, known
<1>2. /\ frames \in Seq(Frames) /\ frames # << >>
      /\ job.incl # << >> /\ FirstUnescapedSpecialChar(Head(job.incl)) # 0
  BY <1>1 DEF ScanInv, Crawling, InCrawl
<1>5. /\ NextInclude.types = job.types /\ Head(job.incl) = job.incl[1]
      /\ \A k \in DOMAIN job.incl : k # 1 => /\ k > 1 /\ k - 1 \in DOMAIN NextInclude.incl
                                             /\ NextInclude.incl[k - 1] = job.incl[k]
  BY <1>1, <1>2, NextIncludeIs
<1>6. Includes' = Includes /\ \A p : \A j : Finds(j, p)' <=> Finds(j, p)
  BY <1>1, SameKept
<1>7. ScanToCome' <=> ScanToCome
  BY <1>1, SameQueue
<1>8. job'.types = job.types /\ phase' # "idle"
  BY <1>1, <1>5
<1>9. StaleFollowed => StaleFollowed'
  BY <1>1, <1>6, <1>7, <1>8 DEF StaleFollowed, IsScan
<1>10. ASSUME NEW p \in PossibleNames, IsKept(p), IsCared(p) PROVE IsCared(p)'
  <2>1. RowAgrees(p)' <=> RowAgrees(p)
    BY <1>1, SameAgrees
  <2>2. ~ IsEventOf(job, p)
    BY <1>2, <1>10, KeptName
  <2>3. EventToCome(p) => EventToCome(p)'
    BY <1>1, <2>2 DEF EventToCome
  <2>4. ASSUME JobComes(p) PROVE JobComes(p)'
    <3>1. CASE CrawlComes(p)
      <4>1. CrawlComes(p)'
        BY <3>1, EndCrawlComes
      <4> QED BY <1>1, <1>8, <2>4, <4>1 DEF JobComes
    <3>2. ASSUME NEW k \in DOMAIN job.incl, Finds(job.incl[k], p), k > 1 PROVE JobComes(p)'
      <4>1. CASE Len(frames) = 1
        <5>1. phase' = "include" /\ job' = NextInclude /\ k # 1
          BY <1>1, <3>2, <4>1
        <5>2. k - 1 \in DOMAIN job'.incl /\ Finds(job'.incl[k - 1], p)
          BY <1>5, <3>2, <5>1
        <5> QED BY <1>1, <1>8, <2>4, <5>1, <5>2 DEF JobComes, Finds, EscapedDir
      <4>2. CASE Len(frames) # 1
        <5>1. job' = job
          BY <1>1, <4>2
        <5> QED BY <1>1, <1>6, <1>8, <2>4, <3>2, <5>1 DEF JobComes
      <4> QED BY <4>1, <4>2
    <3> QED BY <1>1, <2>4, <3>1, <3>2 DEF JobComes
  <2> QED BY <1>1, <1>7, <1>10, <2>1, <2>3, <2>4 DEF IsCared
<1> QED BY <1>1, <1>2, <1>9, <1>10, RunningJob, AgreeBy

(* An entry that is wanted is looked at, and then what is below it.        *)
LEMMA CrawlWantedKeepsAgree ==
  ASSUME ScanInv, AgreeInv, NEW q, CrawlWanted(q)
  PROVE  AgreeInv'
<1>1. /\ undefined = "no" /\ phase = "entry" /\ q \in Last(frames).left
      /\ Process(q, Found(q)) /\ Collected(q)
      /\ Took(q, IF FileExists(q) THEN "freed" ELSE "null")
      /\ UNCHANGED <<sc, types, queue, job, installs>>
  BY DEF CrawlWanted, config, bounds
<1>2. phase' = "type" /\ at' = q
      /\ \E e : frames' = [frames EXCEPT ![Len(frames)].left = @ \ {q}, ![Len(frames)].elem = e]
  BY <1>1 DEF Took
<1>3. tree' = tree \/ DOMAIN tree' = DOMAIN tree
  BY <1>1 DEF Collected
<1>4. DOMAIN tree' = DOMAIN tree /\ noted \subseteq noted'
  BY <1>1, <1>3 DEF Collected
<1>5. /\ StaleFollowed => StaleFollowed'
      /\ ScanToCome' <=> ScanToCome
      /\ \A p : EventToCome(p) => EventToCome(p)'
      /\ \A p : JobComes(p) /\ (CrawlComes(p) => CrawlComes(p)') => JobComes(p)'
  BY <1>1, <1>2, <1>4, SameJob DEF InCrawl
<1>6. ASSUME undefined' = "no", StaleFollowed, NEW p \in PossibleNames, IsCared(p) PROVE IsCared(p)'
  <2>1. CASE p = q
    BY <1>1, <1>6, <2>1, LookedAtIsCared
  <2>2. CASE p # q
    <3>1. RowAgrees(p)' <=> RowAgrees(p)
      BY <1>1, <2>2, OthersAgree
    <3>2. CrawlComes(p) => CrawlComes(p)'
      BY <1>1, <2>2, TookComes
    <3> QED BY <1>4, <1>5, <1>6, <3>1, <3>2 DEF IsCared
  <2> QED BY <2>1, <2>2
<1> QED BY <1>1, <1>5, <1>6, RunningJob, AgreeBy

(* An entry that is not wanted is not kept; but what is below it may be.   *)
LEMMA CrawlUnwantedKeepsAgree ==
  ASSUME ScanInv, AgreeInv, NEW q, CrawlUnwanted(q)
  PROVE  AgreeInv'
<1>1. /\ undefined = "no" /\ phase = "entry" /\ q \in Last(frames).left /\ ~ Wanted(q)
      /\ undefined' = "no" => Process(q, Nothing)
      /\ Took(q, Last(frames).elem)
      /\ UNCHANGED <<sc, tree, noted, types, queue, job, installs>>
  BY DEF CrawlUnwanted, files, config, bounds
<1>2. phase' = "type" /\ at' = q
      /\ \E e : frames' = [frames EXCEPT ![Len(frames)].left = @ \ {q}, ![Len(frames)].elem = e]
  BY <1>1 DEF Took
<1>3. InTop(q) /\ FirstUnescapedSpecialChar(Head(job.incl)) # 0 /\ job.incl # << >> /\ phase # "idle"
      /\ sc \in DOMAIN Scenarios
  BY <1>1, AtEntry DEF ScanInv, TreeTyped
<1>4. PassedOver(q)
  <2> DEFINE i == Head(job.incl)
  <2>1. i \in Patterns /\ i \in Crawled
    BY <1>3, RunningJob DEF Crawled
  <2>2. IsPrefix(TopDir(i), q) /\ q # TopDir(i) /\ q \in PossibleNames
    BY <1>3 DEF InTop, CrawlTop
  <2>3. ~ (Matches(q, i) /\ ~ \E x \in Excludes : Matches(q, x))
    BY <1>1 DEF Wanted, JobExcludes
  <2> HIDE DEF i
  <2>4. \A x \in {i} \union Excludes : Matches(q, x) <=> Designates(x, q)
    BY <1>3, <2>1, <2>2, InScenario
  <2> QED BY <2>1, <2>2, <2>3, <2>4 DEF PassedOver
<1>5. /\ StaleFollowed => StaleFollowed'
      /\ ScanToCome' <=> ScanToCome
      /\ \A p : EventToCome(p) => EventToCome(p)'
      /\ \A p : JobComes(p) /\ (CrawlComes(p) => CrawlComes(p)') => JobComes(p)'
  BY <1>1, <1>2, SameJob DEF InCrawl
<1>6. ASSUME undefined' = "no", NEW p \in PossibleNames, IsKept(p), IsCared(p) PROVE IsCared(p)'
  <2>1. p # q
    BY <1>4, <1>6 DEF IsKept
  <2>2. RowAgrees(p)' <=> RowAgrees(p)
    BY <1>1, <1>6, <2>1, OthersAgree
  <2>3. CrawlComes(p) => CrawlComes(p)'
    BY <1>1, <2>1, TookComes
  <2> QED BY <1>1, <1>5, <1>6, <2>2, <2>3 DEF IsCared
<1> QED BY <1>1, <1>3, <1>5, <1>6, RunningJob, AgreeBy

(* An entry that is gone is no file, and nothing is below it.              *)
LEMMA CrawlMissingKeepsAgree ==
  ASSUME ScanInv, AgreeInv, NEW q, CrawlMissing(q)
  PROVE  AgreeInv'
<1>1. /\ undefined = "no" /\ phase = "entry" /\ q \in Last(frames).left /\ q \notin DOMAIN tree
      /\ frames' = [frames EXCEPT ![Len(frames)].left = @ \ {q}]
      /\ UNCHANGED <<sc, tree, noted, types, queue, job, phase, at, rows, undefined, installs>>
  BY DEF CrawlMissing, files, config, known, bounds
<1>2. /\ StaleFollowed => StaleFollowed'
      /\ ScanToCome' <=> ScanToCome
      /\ \A p : EventToCome(p) => EventToCome(p)'
      /\ \A p : JobComes(p) /\ (CrawlComes(p) => CrawlComes(p)') => JobComes(p)'
  BY <1>1, SameJob DEF InCrawl
<1>3. ASSUME NEW p \in PossibleNames, IsCared(p) PROVE IsCared(p)'
  <2>1. RowAgrees(p)' <=> RowAgrees(p)
    BY <1>1, SameAgrees
  <2>2. p \in DOMAIN tree /\ CrawlComes(p) => CrawlComes(p)'
    BY MissingComes
  <2> QED BY <1>1, <1>2, <1>3, <2>1, <2>2 DEF IsCared
<1> QED BY <1>1, <1>2, <1>3, RunningJob, AgreeBy

-----------------------------------------------------------------------------
(* The theorem about rows at rest                                          *)

(* Whatever the files do, a name that is kept has a row that agrees with   *)
(* its file, or something is to come that looks at it.                     *)
THEOREM AgreeInvHolds == ScanSpec => []AgreeInv
<1>1. ScanInit => AgreeInv
  BY DEF ScanInit, AgreeInv
<1>2. ASSUME ScanInv, AgreeInv, [ScanNext]_scanVars PROVE AgreeInv'
  <2>1. CASE UNCHANGED scanVars
    <3>1. UNCHANGED <<sc, tree, noted, types, queue, job, phase, at, frames, rows, undefined, installs>>
      BY <2>1 DEF scanVars, files, config, runner, known, bounds
    <3>2. \A p : IsKept(p)' <=> IsKept(p)
      BY <3>1, SameKept
    <3>3. PossibleNames' = PossibleNames /\ Includes' = Includes
      BY <3>1, SameKept
    <3>4. ASSUME NEW p PROVE IsCared(p) => IsCared(p)'
      <4>1. RowAgrees(p)' <=> RowAgrees(p)
        BY <3>1, SameAgrees
      <4>2. (ScanToCome' <=> ScanToCome) /\ (JobComes(p) => JobComes(p)')
        BY <3>1, SameRunner
      <4>3. EventToCome(p)' <=> EventToCome(p)
        BY <3>1 DEF EventToCome
      <4> QED BY <3>1, <4>1, <4>2, <4>3 DEF IsCared
    <3>5. StaleFollowed' <=> StaleFollowed
      BY <3>1, SameRunner
    <3> QED BY <1>2, <3>1, <3>2, <3>3, <3>4, <3>5 DEF AgreeInv
  <2>2. CASE \E x \in Sc.changes : Change(x[1], x[2])
    BY <1>2, <2>2, ChangeKeepsAgree
  <2>3. CASE \E r \in Sc.types : Install(r)
    BY <1>2, <2>3, InstallKeepsAgree
  <2>4. CASE \E p \in noted : EventReceived(p)
    BY <1>2, <2>4, EventKeepsAgree
  <2>5. CASE TakeJob
    BY <1>2, <2>5, TakeJobKeepsAgree
  <2>6. CASE EndJob
    BY <1>2, <2>6, EndJobKeepsAgree
  <2>7. CASE RunLiteral
    BY <1>2, <2>7, RunLiteralKeepsAgree
  <2>8. CASE RunPattern
    BY <1>2, <2>8, RunPatternKeepsAgree
  <2>9. CASE Open
    BY <1>2, <2>9, OpenKeepsAgree
  <2>10. CASE EntryType
    BY <1>2, <2>10, EntryTypeKeepsAgree
  <2>11. CASE EndCrawl
    BY <1>2, <2>11, EndCrawlKeepsAgree
  <2>12. CASE \E p : CrawlWanted(p) \/ CrawlUnwanted(p) \/ CrawlMissing(p)
    BY <1>2, <2>12, CrawlWantedKeepsAgree, CrawlUnwantedKeepsAgree, CrawlMissingKeepsAgree
  <2> QED BY <1>2, <2>1, <2>2, <2>3, <2>4, <2>5, <2>6, <2>7, <2>8, <2>9, <2>10, <2>11, <2>12 DEF ScanNext, RunnerStep
<1> QED BY <1>1, <1>2, ScanInvHolds, PTL DEF ScanSpec

(* When nothing is to come any more, the row of every name that is kept    *)
(* agrees with its file.                                                   *)
THEOREM RowsFollowFiles == ScanSpec => []RowsAgreeAtRest
<1>1. ASSUME AgreeInv PROVE RowsAgreeAtRest
  <2> SUFFICES ASSUME Quiescent, undefined = "no", NEW p \in PossibleNames, IsKept(p) PROVE RowAgrees(p)
    BY DEF RowsAgreeAtRest
  <2>1. phase = "idle" /\ queue = << >> /\ noted = {} /\ installs > 0
    BY DEF Quiescent
  <2>2. IsCared(p)
    BY <1>1, <2>1 DEF AgreeInv
  <2>3. ~ EventToCome(p) /\ ~ ScanToCome /\ ~ JobComes(p)
    BY <2>1 DEF EventToCome, ScanToCome, JobComes
  <2> QED BY <2>2, <2>3 DEF IsCared
<1> QED BY <1>1, AgreeInvHolds, PTL

-----------------------------------------------------------------------------
(* What a scan finds.  It has looked at names that its includes stand for  *)
(* only; and, as long as no file changes, to each that is there and was not*)
(* looked at its crawl comes, or an include that is left.                  *)

(* An include that is run as it should asks for p, and one of the          *)
(* configuration does.                                                     *)
Asked(i, p) == ~ EscapedDir(i) /\ AsksFor(i, p)

WantedBy(p) == \E i \in DOMAIN Includes : Asked(Includes[i], p)

(* The job comes to p: its crawl does, for an include that asks for p, or  *)
(* an include that is left does.                                           *)
ScanComes(p) ==
  \/ CrawlComes(p) /\ job.incl # << >> /\ Asked(Head(job.incl), p)
  \/ \E k \in DOMAIN job.incl : Asked(job.incl[k], p) /\ (phase = "include" \/ k > 1)

(* A scan has the configuration's includes.                                *)
ScansInclude == \A k \in DOMAIN queue : queue[k].event \/ queue[k].incl = Includes

(* The scan that runs has looked at files that the includes stand for only,*)
(* and, as long as no file changes, comes to those it has not looked at.   *)
ScanFollows ==
  /\ \A k \in DOMAIN job.incl : \E i \in DOMAIN Includes : job.incl[k] = Includes[i]
  /\ \A p \in handled \intersect PossibleNames : WantedBy(p)
  /\ calm => \A p \in DOMAIN tree : WantedBy(p) => p \in handled \/ ScanComes(p)

FindInv == undefined = "no" => ScansInclude /\ (phase # "idle" /\ ~ job.event => ScanFollows)

(* What the scenario says does not change.                                 *)
LEMMA SameAsked ==
  ASSUME sc' = sc
  PROVE  /\ PossibleNames' = PossibleNames /\ Includes' = Includes
         /\ \A i, p : Asked(i, p)' <=> Asked(i, p)
         /\ \A p : WantedBy(p)' <=> WantedBy(p)
<1>1. Includes' = Includes /\ Excludes' = Excludes /\ PossibleNames' = PossibleNames
  BY DEF Includes, Excludes, PossibleNames
<1>2. \A i, p : Asked(i, p)' <=> Asked(i, p)
  BY <1>1 DEF Asked, AsksFor, EscapedDir
<1>3. \A p : WantedBy(p)' <=> WantedBy(p)
  BY <1>1 DEF WantedBy, Asked, AsksFor, EscapedDir
<1> QED BY <1>1, <1>2, <1>3

(* What is asked for is what is matched and, if there is a crawl for it,   *)
(* not excluded.                                                           *)
LEMMA AskedIs ==
  ASSUME sc \in DOMAIN Scenarios, NEW i \in Patterns, NEW p \in PossibleNames
  PROVE  /\ Asked(i, p) => IsName(p) /\ Matches(p, i) /\ ~ EscapedDir(i)
         /\ Asked(i, p) /\ FirstUnescapedSpecialChar(i) # 0 => p # <<Sep>> /\ ~ MatchesExcludes(p)
         /\ Matches(p, i) /\ FirstUnescapedSpecialChar(i) = 0 => Asked(i, p)
         /\ Matches(p, i) /\ p # <<Sep>> /\ ~ MatchesExcludes(p) /\ ~ EscapedDir(i) => Asked(i, p)
<1>1. IsName(p) /\ \A j \in Patterns \union Excludes : Matches(p, j) <=> Designates(j, p)
  BY InScenario
<1>2. MatchesExcludes(p) <=> \E x \in Excludes : Designates(x, p)
  BY <1>1 DEF MatchesExcludes
<1> QED BY <1>1, <1>2 DEF Asked, AsksFor, EscapedDir

(* A crawl of a scan wants what its include asks for.                      *)
LEMMA CrawlAsks ==
  ASSUME ScanInv, undefined = "no", phase = "entry", ~ job.event, NEW q \in Last(frames).left
  PROVE  q \in PossibleNames /\ (Wanted(q) <=> Asked(Head(job.incl), q))
<1> DEFINE i == Head(job.incl)
<1>1. InTop(q) /\ job.incl # << >> /\ FirstUnescapedSpecialChar(i) # 0 /\ CrawlTop \in PossibleNames
      /\ sc \in DOMAIN Scenarios
  BY AtEntry DEF ScanInv, TreeTyped
<1>2. i \in Patterns
  BY <1>1, RunningJob
<1>3. q \in PossibleNames /\ IsPrefix(TopDir(i), q) /\ q # TopDir(i) /\ TopDir(i) \in PossibleNames
  BY <1>1 DEF InTop, CrawlTop
<1>4. Wanted(q) <=> Matches(q, i) /\ ~ MatchesExcludes(q)
  BY DEF Wanted, JobExcludes, MatchesExcludes
<1> HIDE DEF i
<1>5. IsName(q) /\ IsName(TopDir(i))
  BY <1>1, <1>3, InScenario
<1>6. q # <<Sep>>
  <2> SUFFICES ASSUME q = <<Sep>> PROVE FALSE
    OBVIOUS
  <2> DEFINE t == TopDir(i)
  <2>1. t \in Seq(ToSet(t)) /\ Len(t) \in Nat /\ Len(t) >= 1 /\ t[1] = Sep
    BY <1>5, NameIsSequence
  <2>2. t = SubSeq(q, 1, Len(t)) /\ Len(t) <= Len(q)
    <3>1. IsPrefix(t, q)
      BY <1>3
    <3> HIDE DEF t
    <3> QED BY <2>1, <3>1, SubSeqFull DEF IsPrefix
  <2>3. Len(q) = 1
    OBVIOUS
  <2> HIDE DEF t
  <2>4. Len(t) = 1
    BY <2>1, <2>2, <2>3
  <2>5. SubSeq(q, 1, Len(q)) = q
    <3> q \in Seq({Sep})
      OBVIOUS
    <3> QED BY SubSeqFull
  <2> QED BY <1>3, <2>2, <2>3, <2>4, <2>5 DEF t
<1>7. Matches(q, i) => ~ EscapedDir(i)
  BY <1>1, <1>2, <1>3, <1>5, EscapedFindsNothing
<1> QED BY <1>1, <1>2, <1>3, <1>4, <1>6, <1>7, AskedIs DEF i

(* What is left of the includes is left of the job's.                      *)
LEMMA NextIncludeFrom ==
  ASSUME ScanInv, phase # "idle", job.incl # << >>
  PROVE  /\ NextInclude.event = job.event
         /\ \A k \in DOMAIN NextInclude.incl : \E l \in DOMAIN job.incl : NextInclude.incl[k] = job.incl[l]
<1>1. job \in Jobs /\ job.incl \in Seq(Patterns)
  BY RunningJob
<1>2. /\ DOMAIN job.incl = 1 .. Len(job.incl) /\ Len(job.incl) \in Nat \ {0}
      /\ Tail(job.incl) \in Seq(Patterns) /\ Len(Tail(job.incl)) = Len(job.incl) - 1
      /\ \A k \in 1 .. Len(Tail(job.incl)) : Tail(job.incl)[k] = job.incl[k + 1]
  BY <1>1, LenProperties, EmptySeq, HeadTailProperties
<1>3. DOMAIN Tail(job.incl) = 1 .. Len(job.incl) - 1
  BY <1>2, LenProperties
<1>4. NextInclude.event = job.event /\ (NextInclude.incl = << >> \/ NextInclude.incl = Tail(job.incl))
  BY <1>1 DEF NextInclude, Jobs
<1>5. ASSUME NEW k \in DOMAIN Tail(job.incl) PROVE \E l \in DOMAIN job.incl : Tail(job.incl)[k] = job.incl[l]
  <2>1. k \in 1 .. Len(job.incl) - 1 /\ k + 1 \in 1 .. Len(job.incl) /\ k \in 1 .. Len(Tail(job.incl))
    BY <1>2, <1>3
  <2> QED BY <1>2, <2>1
<1>6. DOMAIN << >> = {}
  OBVIOUS
<1> QED BY <1>4, <1>5, <1>6

(* What leaves the runner alone, and the names of the files.               *)
LEMMA SameScan ==
  ASSUME sc' = sc, UNCHANGED <<job, phase, at, frames, handled, calm>>, DOMAIN tree' = DOMAIN tree
  PROVE  ScanFollows => ScanFollows'
<1>1. /\ PossibleNames' = PossibleNames /\ Includes' = Includes
      /\ \A i, p : Asked(i, p)' <=> Asked(i, p)
      /\ \A p : WantedBy(p)' <=> WantedBy(p)
  BY SameAsked
<1>2. \A p : CrawlComes(p)' <=> CrawlComes(p)
  BY DEF CrawlComes
<1>3. ASSUME NEW p PROVE ScanComes(p) => ScanComes(p)'
  BY <1>1, <1>2 DEF ScanComes, Asked, AsksFor, EscapedDir
<1> QED BY <1>1, <1>3 DEF ScanFollows

(* A step of the job that runs: what it looks at is wanted, and to what it *)
(* does not look at it still comes.                                        *)
LEMMA FindBy ==
  ASSUME sc' = sc, queue' = queue, FindInv, undefined = "no", phase # "idle",
         DOMAIN tree' = DOMAIN tree, calm' = calm, handled \subseteq handled', job'.event = job.event,
         \A k \in DOMAIN job'.incl : \E l \in DOMAIN job.incl : job'.incl[k] = job.incl[l],
         undefined' = "no" /\ ~ job.event /\ ScanFollows =>
           /\ \A p \in PossibleNames : p \in handled' \ handled => WantedBy(p)
           /\ \A p \in DOMAIN tree : ScanComes(p) => p \in handled' \/ ScanComes(p)'
  PROVE  FindInv'
<1>1. /\ PossibleNames' = PossibleNames /\ Includes' = Includes
      /\ \A p : WantedBy(p)' <=> WantedBy(p)
  BY SameAsked
<1>2. ScansInclude => ScansInclude'
  BY <1>1 DEF ScansInclude
<1>3. ASSUME undefined' = "no", ~ job.event, ScanFollows PROVE ScanFollows'
  <2>1. \A k \in DOMAIN job'.incl : \E i \in DOMAIN Includes' : job'.incl[k] = Includes'[i]
    BY <1>1, <1>3 DEF ScanFollows
  <2>2. \A p \in handled' \intersect PossibleNames' : WantedBy(p)'
    BY <1>1, <1>3 DEF ScanFollows
  <2>3. ASSUME calm', NEW p \in DOMAIN tree', WantedBy(p)' PROVE p \in handled' \/ ScanComes(p)'
    BY <1>1, <1>3, <2>3 DEF ScanFollows
  <2> QED BY <2>1, <2>2, <2>3 DEF ScanFollows
<1> QED BY <1>2, <1>3 DEF FindInv

(* A crawl for an include goes on.                                         *)
LEMMA CrawlGoesOn ==
  ASSUME sc' = sc, job' = job, InCrawl, NEW p, ScanComes(p),
         CrawlComes(p) /\ Asked(Head(job.incl), p) => CrawlComes(p)'
  PROVE  ScanComes(p)'
<1>1. \A i : Asked(i, p)' <=> Asked(i, p)
  BY SameAsked
<1>2. CASE CrawlComes(p) /\ job.incl # << >> /\ Asked(Head(job.incl), p)
  <2>1. CrawlComes(p)' /\ job'.incl # << >> /\ Asked(Head(job'.incl), p)
    BY <1>2
  <2> QED BY <2>1, <1>1 DEF ScanComes, Asked, AsksFor, EscapedDir
<1>3. ASSUME NEW k \in DOMAIN job.incl, Asked(job.incl[k], p), phase = "include" \/ k > 1 PROVE ScanComes(p)'
  <2>1. k > 1 /\ k \in DOMAIN job'.incl /\ job'.incl[k] = job.incl[k]
    BY <1>3 DEF InCrawl
  <2> QED BY <1>1, <1>3, <2>1 DEF ScanComes, Asked, AsksFor, EscapedDir
<1> QED BY <1>2, <1>3 DEF ScanComes

(* An include that is not the first is still there when the first is done. *)
LEMMA IncludeLeft ==
  ASSUME ScanInv, sc' = sc, phase # "idle", job.incl # << >>, job' = NextInclude, phase' = "include",
         NEW k \in DOMAIN job.incl, k # 1, NEW p, Asked(job.incl[k], p)
  PROVE  ScanComes(p)'
<1>1. k - 1 \in DOMAIN job'.incl /\ job'.incl[k - 1] = job.incl[k]
  BY NextIncludeIs
<1>2. \A i : Asked(i, p)' <=> Asked(i, p)
  BY SameAsked
<1> QED BY <1>1, <1>2 DEF ScanComes, Asked, AsksFor, EscapedDir

-----------------------------------------------------------------------------
(* The includes, and what a scan finds                                     *)

(* A file changes: the scan that runs need not find it.                    *)
LEMMA ChangeKeepsFind ==
  ASSUME FindInv, NEW x \in Sc.changes, Change(x[1], x[2])
  PROVE  FindInv'
<1>1. /\ undefined = "no" /\ ~ calm' /\ UNCHANGED <<sc, queue, job, phase, handled>>
  BY DEF Change
<1>2. /\ PossibleNames' = PossibleNames /\ Includes' = Includes
      /\ \A p : WantedBy(p)' <=> WantedBy(p)
  BY <1>1, SameAsked
<1>3. ScansInclude => ScansInclude'
  BY <1>1, <1>2 DEF ScansInclude
<1>4. ScanFollows => ScanFollows'
  BY <1>1, <1>2 DEF ScanFollows
<1> QED BY <1>1, <1>3, <1>4 DEF FindInv

(* A job more is a scan for the includes, or the job of an event.          *)
LEMMA AppendedFinds ==
  ASSUME ScanInv, FindInv, undefined = "no", sc' = sc, UNCHANGED <<job, phase, at, frames, handled, calm>>,
         DOMAIN tree' = DOMAIN tree,
         NEW j \in Jobs, queue' = Append(queue, j), j.event \/ j.incl = Includes
  PROVE  FindInv'
<1>1. Includes' = Includes
  BY SameAsked
<1>2. /\ DOMAIN queue = 1 .. Len(queue) /\ DOMAIN queue' = 1 .. Len(queue) + 1 /\ Len(queue) \in Nat
      /\ queue'[Len(queue) + 1] = j
      /\ \A k \in DOMAIN queue : k \in DOMAIN queue' /\ k < Len(queue) + 1 /\ queue'[k] = queue[k]
  BY JobAppended
<1>3. \A k \in DOMAIN queue' : k = Len(queue) + 1 \/ k \in DOMAIN queue
  BY <1>2
<1>4. ScansInclude => ScansInclude'
  BY <1>1, <1>2, <1>3 DEF ScansInclude
<1>5. ScanFollows => ScanFollows'
  BY SameScan
<1> QED BY <1>4, <1>5 DEF FindInv

(* A configuration is installed: a scan for its includes waits.            *)
LEMMA InstallKeepsFind ==
  ASSUME ScanInv, FindInv, NEW r \in Sc.types, Install(r)
  PROVE  FindInv'
<1> DEFINE j == [incl |-> Includes, types |-> types', event |-> FALSE]
<1>1. /\ UNCHANGED <<sc, tree, job, phase, at, frames, handled, calm>> /\ undefined = "no"
      /\ queue' = Append(queue, j) /\ types' = RequestedTypes(r)
  BY DEF Install, files, runner
<1>2. j \in Jobs /\ j.incl = Includes
  <2>1. Includes \in Seq(Patterns)
    BY InScenario DEF ScanInv, TreeTyped
  <2> QED BY <1>1, <2>1 DEF Jobs, InstalledTypes
<1> HIDE DEF j
<1> QED BY <1>1, <1>2, AppendedFinds

(* An event is delivered: its job is no scan.                              *)
LEMMA EventKeepsFind ==
  ASSUME ScanInv, FindInv, NEW q \in noted, EventReceived(q)
  PROVE  FindInv'
<1> DEFINE j == [incl |-> <<q>>, types |-> types, event |-> TRUE]
<1>1. /\ UNCHANGED <<sc, tree, job, phase, at, frames, handled, calm, undefined>> /\ undefined = "no"
      /\ queue' = IF Monitored(q) THEN Append(queue, j) ELSE queue
  BY DEF EventReceived, runner, known
<1>2. j \in Jobs /\ j.event
  <2>1. q \in Patterns /\ types \in InstalledTypes
    BY InScenario DEF ScanInv, TreeTyped, ConfigTyped
  <2>2. <<q>> \in Seq(Patterns)
    BY <2>1
  <2> QED BY <2>1, <2>2 DEF Jobs
<1> HIDE DEF j
<1>3. CASE Monitored(q)
  BY <1>1, <1>2, <1>3, AppendedFinds
<1>4. CASE ~ Monitored(q)
  <2>1. Includes' = Includes
    BY <1>1, SameAsked
  <2>2. ScansInclude => ScansInclude'
    BY <1>1, <1>4, <2>1 DEF ScansInclude
  <2>3. ScanFollows => ScanFollows'
    BY <1>1, SameScan
  <2> QED BY <1>1, <2>2, <2>3 DEF FindInv
<1> QED BY <1>3, <1>4

(* A scan begins: all that its includes ask for is to come.                *)
LEMMA TakeJobKeepsFind ==
  ASSUME ScanInv, FindInv, TakeJob
  PROVE  FindInv'
<1>1. /\ undefined = "no" /\ queue # << >> /\ job' = Head(queue) /\ queue' = Tail(queue)
      /\ phase' = "include" /\ handled' = {} /\ UNCHANGED <<sc, tree, undefined>>
  BY DEF TakeJob, files, known
<1>2. /\ DOMAIN queue = 1 .. Len(queue) /\ DOMAIN queue' = 1 .. Len(queue) - 1 /\ Len(queue) \in Nat \ {0}
      /\ job' = queue[1] /\ \A k \in DOMAIN queue' : queue'[k] = queue[k + 1]
  <2>1. queue \in Seq(Jobs)
    BY DEF ScanInv, JobsTyped
  <2>2. /\ Tail(queue) \in Seq(Jobs) /\ Len(Tail(queue)) = Len(queue) - 1 /\ Head(queue) = queue[1]
        /\ \A k \in 1 .. Len(Tail(queue)) : Tail(queue)[k] = queue[k + 1]
    BY <1>1, <2>1, HeadTailProperties
  <2>3. Len(queue) \in Nat \ {0} /\ DOMAIN queue = 1 .. Len(queue)
    BY <1>1, <2>1, LenProperties, EmptySeq
  <2>4. DOMAIN Tail(queue) = 1 .. Len(queue) - 1
    BY <2>2, LenProperties
  <2> QED BY <1>1, <2>2, <2>3, <2>4
<1>3. /\ Includes' = Includes /\ \A i, p : Asked(i, p)' <=> Asked(i, p)
      /\ \A p : WantedBy(p)' <=> WantedBy(p)
  BY <1>1, SameAsked
<1>4. ScansInclude
  BY <1>1 DEF FindInv
<1>5. ScansInclude'
  <2>1. \A k \in DOMAIN queue' : k + 1 \in DOMAIN queue
    BY <1>2
  <2> QED BY <1>2, <1>3, <1>4, <2>1 DEF ScansInclude
<1>6. ASSUME ~ job'.event PROVE ScanFollows'
  <2>1. job'.incl = Includes
    BY <1>2, <1>4, <1>6 DEF ScansInclude
  <2>2. ASSUME NEW p, WantedBy(p)' PROVE ScanComes(p)'
    <3>1. PICK i \in DOMAIN Includes : Asked(Includes[i], p)
      BY <1>3, <2>2 DEF WantedBy
    <3>2. i \in DOMAIN job'.incl /\ Asked(job'.incl[i], p)
      BY <2>1, <3>1
    <3> QED BY <1>1, <1>3, <3>2 DEF ScanComes, Asked, AsksFor, EscapedDir
  <2>3. \A k \in DOMAIN job'.incl : \E i \in DOMAIN Includes' : job'.incl[k] = Includes'[i]
    BY <1>3, <2>1
  <2> QED BY <1>1, <2>2, <2>3 DEF ScanFollows
<1> QED BY <1>5, <1>6 DEF FindInv

(* A literal include: the name it is is looked at, which it asks for.      *)
LEMMA RunLiteralKeepsFind ==
  ASSUME ScanInv, FindInv, RunLiteral
  PROVE  FindInv'
<1> DEFINE i == Head(job.incl)
           q == UnescapePattern(i)
<1>1. /\ undefined = "no" /\ phase = "include" /\ job.incl # << >> /\ job' = NextInclude /\ phase' = "include"
      /\ FirstUnescapedSpecialChar(i) = 0
      /\ UNCHANGED <<sc, queue, calm>>
      /\ IF ReadsPastEnd(i) THEN undefined' = "escape" /\ tree' = tree /\ handled' = handled
                            ELSE Collected(q) /\ handled' = handled \union {q}
  BY DEF RunLiteral
<1> HIDE DEF q, i
<1>2. sc \in DOMAIN Scenarios /\ i \in Patterns /\ i \in Seq(ToSet(i)) /\ DOMAIN tree \subseteq PossibleNames
      /\ phase # "idle"
  BY <1>1, RunningJob, PatternIsSequence DEF ScanInv, TreeTyped, i
<1>3. i = job.incl[1] /\ job.incl \in Seq(Patterns) /\ 1 \in DOMAIN job.incl
  <2>1. i = job.incl[1] /\ job.incl \in Seq(Patterns)
    BY <1>1, <1>2, NextIncludeIs, RunningJob DEF i
  <2>2. Len(job.incl) \in Nat /\ Len(job.incl) # 0 /\ DOMAIN job.incl = 1 .. Len(job.incl)
    BY <1>1, <2>1, EmptySeq, LenProperties
  <2> QED BY <2>1, <2>2
<1>4. job'.event = job.event /\ \A k \in DOMAIN job'.incl : \E l \in DOMAIN job.incl : job'.incl[k] = job.incl[l]
  BY <1>1, <1>2, NextIncludeFrom
<1>5. DOMAIN tree' = DOMAIN tree /\ handled \subseteq handled'
  BY <1>1 DEF Collected
<1>6. frames = << >>
  BY <1>1 DEF ScanInv, Crawling, InCrawl
<1>7. ASSUME undefined' = "no", ScanFollows, NEW p \in PossibleNames, p \in handled' \ handled
      PROVE  WantedBy(p)
  <2>1. p = q /\ ~ ReadsPastEnd(i)
    BY <1>1, <1>7
  <2>2. Matches(p, i)
    BY <1>1, <1>2, <2>1, LiteralIsMatched DEF q
  <2>3. Asked(i, p)
    BY <1>1, <1>2, <1>7, <2>2, AskedIs
  <2>4. \E k \in DOMAIN Includes : i = Includes[k]
    BY <1>3, <1>7 DEF ScanFollows
  <2> QED BY <2>3, <2>4 DEF WantedBy
<1>8. ASSUME undefined' = "no", NEW p \in DOMAIN tree, ScanComes(p)
      PROVE  p \in handled' \/ ScanComes(p)'
  <2>0. p \in PossibleNames
    BY <1>2
  <2>1. ~ CrawlComes(p)
    BY <1>1, <1>6 DEF CrawlComes
  <2>2. PICK k \in DOMAIN job.incl : Asked(job.incl[k], p)
    BY <1>8, <2>1 DEF ScanComes
  <2>3. CASE k = 1
    <3>1. Asked(i, p)
      BY <1>3, <2>2, <2>3
    <3>2. IsName(p) /\ Matches(p, i)
      BY <1>2, <2>0, <3>1, AskedIs
    <3>3. UnescapePattern(i) = p
      BY <1>1, <1>2, <3>2, NameIsSequence, LiteralMatches
    <3>4. undefined' # "escape"
      BY <1>8
    <3> QED BY <1>1, <3>3, <3>4 DEF q
  <2>4. CASE k # 1
    BY <1>1, <1>2, <2>2, <2>4, IncludeLeft
  <2> QED BY <2>3, <2>4
<1> QED BY <1>1, <1>2, <1>4, <1>5, <1>7, <1>8, FindBy

(* A pattern: the crawl begins that comes to what the pattern asks for, or *)
(* there is nothing it asks for.                                           *)
LEMMA RunPatternKeepsFind ==
  ASSUME ScanInv, FindInv, RunPattern
  PROVE  FindInv'
<1> DEFINE i == Head(job.incl)
<1>1. /\ undefined = "no" /\ phase = "include" /\ job.incl # << >> /\ FirstUnescapedSpecialChar(i) # 0
      /\ UNCHANGED <<sc, tree, queue, frames, handled, calm, undefined>>
      /\ IF IsDirectory(TopDir(i)) THEN phase' = "open" /\ at' = TopDir(i) /\ job' = job
                                   ELSE job' = NextInclude /\ phase' = "include"
  BY DEF RunPattern, files, known
<1> HIDE DEF i
<1>2. sc \in DOMAIN Scenarios /\ i \in Patterns /\ DOMAIN tree \subseteq PossibleNames /\ phase # "idle"
  BY <1>1, RunningJob DEF ScanInv, TreeTyped, i
<1>3. i = job.incl[1] /\ \A k \in DOMAIN job.incl : k # 1 => k > 1
  BY <1>1, <1>2, NextIncludeIs DEF i
<1>4. job'.event = job.event /\ \A k \in DOMAIN job'.incl : \E l \in DOMAIN job.incl : job'.incl[k] = job.incl[l]
  BY <1>1, <1>2, NextIncludeFrom
<1>5. frames = << >>
  BY <1>1 DEF ScanInv, Crawling, InCrawl
<1>6. \A j, p : Asked(j, p)' <=> Asked(j, p)
  BY <1>1, SameAsked
<1>7. ASSUME NEW p \in DOMAIN tree, ScanComes(p) PROVE ScanComes(p)'
  <2>0. p \in PossibleNames
    BY <1>2
  <2>1. ~ CrawlComes(p)
    BY <1>1, <1>5 DEF CrawlComes
  <2>2. PICK k \in DOMAIN job.incl : Asked(job.incl[k], p)
    BY <1>7, <2>1 DEF ScanComes
  <2>3. CASE k = 1
    <3>1. Asked(i, p)
      BY <1>3, <2>2, <2>3
    <3>2. p # <<Sep>> /\ Matches(p, i) /\ ~ EscapedDir(i)
      BY <1>1, <1>2, <2>0, <3>1, AskedIs
    <3>3. IsDirectory(TopDir(i)) /\ CrawlComes(p)'
      BY <3>2, TopIsCrawled DEF i
    <3>4. job' = job
      BY <1>1, <3>3
    <3>5. CrawlComes(p)' /\ job'.incl # << >> /\ Asked(Head(job'.incl), p)
      BY <1>1, <3>1, <3>3, <3>4 DEF i
    <3> QED BY <1>6, <3>5 DEF ScanComes, Asked, AsksFor, EscapedDir
  <2>4. CASE k # 1
    <3>1. CASE job' = job
      <4>1. k > 1 /\ k \in DOMAIN job'.incl /\ job'.incl[k] = job.incl[k]
        BY <1>3, <2>4, <3>1
      <4> QED BY <1>6, <2>2, <4>1 DEF ScanComes, Asked, AsksFor, EscapedDir
    <3>2. CASE job' = NextInclude /\ phase' = "include"
      BY <1>1, <1>2, <2>2, <2>4, <3>2, IncludeLeft
    <3> QED BY <1>1, <3>1, <3>2
  <2> QED BY <2>3, <2>4
<1> QED BY <1>1, <1>2, <1>4, <1>7, FindBy

-----------------------------------------------------------------------------
(* The crawl, and what a scan finds                                        *)

(* The directory is opened, and crawled.                                   *)
LEMMA OpenKeepsFind ==
  ASSUME ScanInv, FindInv, Open
  PROVE  FindInv'
<1>1. /\ undefined = "no" /\ phase = "open" /\ UNCHANGED <<sc, tree, queue, job, handled, calm>>
  BY DEF Open, files
<1>2. ASSUME undefined' = "no", NEW p \in DOMAIN tree, ScanComes(p) PROVE ScanComes(p)'
  <2>1. CrawlComes(p) => CrawlComes(p)'
    BY <1>2, OpenComes
  <2> QED BY <1>1, <1>2, <2>1, CrawlGoesOn DEF InCrawl
<1> QED BY <1>1, <1>2, FindBy

(* The entry that was looked at is opened if it is a directory.            *)
LEMMA EntryTypeKeepsFind ==
  ASSUME ScanInv, FindInv, EntryType
  PROVE  FindInv'
<1>1. /\ undefined = "no" /\ phase = "type" /\ UNCHANGED <<sc, tree, queue, job, handled, calm>>
  BY DEF EntryType, files
<1>2. ASSUME NEW p \in DOMAIN tree, ScanComes(p) PROVE ScanComes(p)'
  <2>1. CrawlComes(p) => CrawlComes(p)'
    BY EntryTypeComes
  <2> QED BY <1>1, <1>2, <2>1, CrawlGoesOn DEF InCrawl
<1> QED BY <1>1, <1>2, FindBy

(* A directory is closed, and with the last one the crawl ends.            *)
LEMMA EndCrawlKeepsFind ==
  ASSUME ScanInv, FindInv, EndCrawl
  PROVE  FindInv'
<1>1. /\ undefined = "no" /\ phase = "entry" /\ phase # "idle" /\ UNCHANGED <<sc, tree, queue, handled, calm>>
      /\ IF Len(frames) = 1 THEN phase' = "include" /\ job' = NextInclude ELSE job' = job
      /\ job.incl # << >>
  BY DEF EndCrawl, files, ScanInv, Crawling, InCrawl
<1>2. job'.event = job.event /\ \A k \in DOMAIN job'.incl : \E l \in DOMAIN job.incl : job'.incl[k] = job.incl[l]
  BY <1>1, NextIncludeFrom
<1>3. ASSUME NEW p \in DOMAIN tree, ScanComes(p) PROVE ScanComes(p)'
  <2>1. CrawlComes(p) => Len(frames) # 1 /\ CrawlComes(p)'
    BY EndCrawlComes
  <2>2. CASE Len(frames) # 1
    BY <1>1, <1>3, <2>1, <2>2, CrawlGoesOn DEF InCrawl
  <2>3. CASE Len(frames) = 1
    <3>1. PICK k \in DOMAIN job.incl : Asked(job.incl[k], p) /\ k > 1
      BY <1>1, <1>3, <2>1, <2>3 DEF ScanComes
    <3>2. k # 1
      BY <3>1
    <3> QED BY <1>1, <2>3, <3>1, <3>2, IncludeLeft
  <2> QED BY <2>2, <2>3
<1> QED BY <1>1, <1>2, <1>3, FindBy

(* An entry that is wanted is looked at.                                   *)
LEMMA CrawlWantedKeepsFind ==
  ASSUME ScanInv, FindInv, NEW q, CrawlWanted(q)
  PROVE  FindInv'
<1> DEFINE e == IF FileExists(q) THEN "freed" ELSE "null"
<1>1. /\ undefined = "no" /\ phase = "entry" /\ q \in Last(frames).left /\ Wanted(q) /\ Collected(q) /\ Took(q, e)
      /\ handled' = handled \union {q} /\ UNCHANGED <<sc, queue, job, calm>>
  BY DEF CrawlWanted
<1> HIDE DEF e
<1>2. DOMAIN tree' = DOMAIN tree
  BY <1>1 DEF Collected
<1>3. ~ job.event => Asked(Head(job.incl), q)
  BY <1>1, CrawlAsks
<1>4. ASSUME ScanFollows, ~ job.event PROVE WantedBy(q)
  <2> DEFINE s == job.incl
  <2>1. s \in Seq(Patterns) /\ s # << >>
    BY <1>1, RunningJob, AtEntry
  <2> HIDE DEF s
  <2>2. Head(s) = s[1] /\ 1 \in DOMAIN s
    <3>1. Len(s) \in Nat /\ Len(s) # 0 /\ DOMAIN s = 1 .. Len(s)
      BY <2>1, EmptySeq, LenProperties
    <3> QED BY <2>1, <3>1, HeadTailProperties
  <2>3. \E k \in DOMAIN Includes : s[1] = Includes[k]
    BY <1>4, <2>2 DEF ScanFollows, s
  <2> QED BY <1>3, <1>4, <2>2, <2>3 DEF WantedBy, s
<1>5. ASSUME NEW p \in DOMAIN tree, ScanComes(p) PROVE p \in handled' \/ ScanComes(p)'
  <2>1. CASE p = q
    BY <1>1, <2>1
  <2>2. CASE p # q
    <3>1. CrawlComes(p) => CrawlComes(p)'
      BY <1>1, <2>2, TookComes
    <3> QED BY <1>1, <1>5, <3>1, CrawlGoesOn DEF InCrawl
  <2> QED BY <2>1, <2>2
<1> QED BY <1>1, <1>2, <1>4, <1>5, FindBy

(* An entry that is not wanted is one that the include does not ask for.   *)
LEMMA CrawlUnwantedKeepsFind ==
  ASSUME ScanInv, FindInv, NEW q, CrawlUnwanted(q)
  PROVE  FindInv'
<1>1. /\ undefined = "no" /\ phase = "entry" /\ q \in Last(frames).left /\ ~ Wanted(q)
      /\ Took(q, Last(frames).elem) /\ UNCHANGED <<sc, tree, queue, job, handled, calm>>
  BY DEF CrawlUnwanted, files
<1>2. ~ job.event => ~ Asked(Head(job.incl), q)
  BY <1>1, CrawlAsks
<1>3. ASSUME ~ job.event, NEW p \in DOMAIN tree, ScanComes(p) PROVE ScanComes(p)'
  <2>1. CrawlComes(p) /\ Asked(Head(job.incl), p) => CrawlComes(p)'
    <3>1. Asked(Head(job.incl), p) => p # q
      BY <1>2, <1>3
    <3> QED BY <1>1, <3>1, TookComes
  <2> QED BY <1>1, <1>3, <2>1, CrawlGoesOn DEF InCrawl
<1> QED BY <1>1, <1>3, FindBy

(* An entry that is gone is no file.                                       *)
LEMMA CrawlMissingKeepsFind ==
  ASSUME ScanInv, FindInv, NEW q, CrawlMissing(q)
  PROVE  FindInv'
<1>1. /\ undefined = "no" /\ phase = "entry" /\ UNCHANGED <<sc, tree, queue, job, handled, calm>>
  BY DEF CrawlMissing, files
<1>2. ASSUME NEW p \in DOMAIN tree, ScanComes(p) PROVE ScanComes(p)'
  <2>1. CrawlComes(p) => CrawlComes(p)'
    BY MissingComes
  <2> QED BY <1>1, <1>2, <2>1, CrawlGoesOn DEF InCrawl
<1> QED BY <1>1, <1>2, FindBy

-----------------------------------------------------------------------------
(* The theorem about what a scan finds                                     *)

(* What a scan has looked at is what the includes stand for, and what they *)
(* stand for it has looked at or will.                                     *)
THEOREM FindInvHolds == ScanSpec => []FindInv
<1>1. ScanInit => FindInv
  BY DEF ScanInit, FindInv, ScansInclude
<1>2. ASSUME ScanInv, FindInv, [ScanNext]_scanVars PROVE FindInv'
  <2>1. CASE UNCHANGED scanVars
    <3>1. UNCHANGED <<sc, tree, queue, job, phase, at, frames, handled, calm, undefined>>
      BY <2>1 DEF scanVars, files, runner, known
    <3>2. Includes' = Includes
      BY <3>1, SameAsked
    <3>3. ScansInclude => ScansInclude'
      BY <3>1, <3>2 DEF ScansInclude
    <3>4. ScanFollows => ScanFollows'
      BY <3>1, SameScan
    <3> QED BY <1>2, <3>1, <3>3, <3>4 DEF FindInv
  <2>2. CASE \E x \in Sc.changes : Change(x[1], x[2])
    BY <1>2, <2>2, ChangeKeepsFind
  <2>3. CASE \E r \in Sc.types : Install(r)
    BY <1>2, <2>3, InstallKeepsFind
  <2>4. CASE \E p \in noted : EventReceived(p)
    BY <1>2, <2>4, EventKeepsFind
  <2>5. CASE TakeJob
    BY <1>2, <2>5, TakeJobKeepsFind
  <2>6. CASE EndJob
    <3>1. phase' = "idle" /\ UNCHANGED <<sc, queue, undefined>>
      BY <2>6 DEF EndJob, known, files
    <3>2. Includes' = Includes
      BY <3>1, SameAsked
    <3> QED BY <1>2, <3>1, <3>2 DEF FindInv, ScansInclude
  <2>7. CASE RunLiteral
    BY <1>2, <2>7, RunLiteralKeepsFind
  <2>8. CASE RunPattern
    BY <1>2, <2>8, RunPatternKeepsFind
  <2>9. CASE Open
    BY <1>2, <2>9, OpenKeepsFind
  <2>10. CASE EntryType
    BY <1>2, <2>10, EntryTypeKeepsFind
  <2>11. CASE EndCrawl
    BY <1>2, <2>11, EndCrawlKeepsFind
  <2>12. CASE \E p : CrawlWanted(p) \/ CrawlUnwanted(p) \/ CrawlMissing(p)
    BY <1>2, <2>12, CrawlWantedKeepsFind, CrawlUnwantedKeepsFind, CrawlMissingKeepsFind
  <2> QED BY <1>2, <2>1, <2>2, <2>3, <2>4, <2>5, <2>6, <2>7, <2>8, <2>9, <2>10, <2>11, <2>12 DEF ScanNext, RunnerStep
<1> QED BY <1>1, <1>2, ScanInvHolds, PTL DEF ScanSpec

(* A scan during which no file changed has looked at the files that are    *)
(* there and that its includes stand for, and at no other file.            *)
THEOREM ScansFind == ScanSpec => []ScanFinds
<1>1. ASSUME ScanInv, FindInv PROVE ScanFinds
  <2> SUFFICES ASSUME phase = "include", job.incl = << >>, ~ job.event, calm, undefined = "no"
               PROVE  {p \in handled : FileExists(p)} = {p \in DOMAIN tree : FileExists(p) /\ WantedBy(p)}
    BY DEF ScanFinds, WantedBy, Asked
  <2>1. ScanFollows
    BY <1>1 DEF FindInv
  <2>2. DOMAIN tree \subseteq PossibleNames /\ frames = << >>
    BY <1>1 DEF ScanInv, TreeTyped, Crawling, InCrawl
  <2>3. \A p : ~ ScanComes(p)
    BY <2>2 DEF ScanComes
  <2>4. \A p \in DOMAIN tree : p \in handled <=> WantedBy(p)
    BY <2>1, <2>2, <2>3 DEF ScanFollows
  <2>5. \A p : FileExists(p) => p \in DOMAIN tree
    BY DEF FileExists
  <2> QED BY <2>4, <2>5
<1> QED BY <1>1, ScanInvHolds, FindInvHolds, PTL

-----------------------------------------------------------------------------
(* The link of the agent to the router                                     *)

(* What the spool thread holds, and which way the heartbeat takes.         *)
Shape ==
  /\ spooler = "send" => \E m \in Messages : hand = <<m>>
  /\ pc[Spooler] = "idle"
  /\ pc[Heartbeat] \in {"idle", "send"}

TInv == TypeOK /\ Shape

(* The messages of S were made before those of T of the same thread.       *)
Precede(S, T) == \A a \in S, b \in T : a.from = b.from => a.n < b.n

Sorted(q) == \A i, j \in DOMAIN q : i < j /\ q[i].from = q[j].from => q[i].n < q[j].n

(* The messages in the order in which they come out of the spool: in the   *)
(* pipe of the spool thread, in its hand, and in the spool.                *)
Chained == Range(pipe[Spooler]) \union Held \union Range(spool)

ChainSorted ==
  /\ Sorted(pipe[Spooler]) /\ Sorted(spool)
  /\ Precede(Range(pipe[Spooler]), Held \union Range(spool))
  /\ Precede(Held, Range(spool))
  /\ Chained \subseteq spooled

(* What was forwarded came before all that is still on its way through the *)
(* spool, and what took the way around it before all that was spooled.     *)
ForwardedFirst == Precede(Range(forwarded), Chained)

PipesFirst ==
  \A t \in Threads \ {Spooler} :
    /\ \A m \in Range(pipe[t]) : m.from = t
    /\ Precede(Range(pipe[t]), spooled)

Everywhere(m) ==
  \/ m \in spooled \/ m \in Range(forwarded)
  \/ \E t \in Threads : m \in Range(pipe[t])

(* The message a thread is about to send is its last one.                  *)
Numbering ==
  \A t \in Threads \ {Spooler} : \A m : Everywhere(m) /\ m.from = t =>
    /\ m.n <= sent[t]
    /\ pc[t] # "idle" => m.n < sent[t]

(* A thread that goes around the spool has nothing spooled in this run.    *)
NothingSpooled ==
  /\ \A m \in spooled : m.from # Heartbeat
  /\ ~ newFiles => \A m \in spooled : m.from = Spooler
  /\ \A t \in Threads : pc[t] = "send" => \A m \in spooled : m.from # t

OInv ==
  /\ ChainSorted /\ ForwardedFirst /\ PipesFirst /\ Numbering /\ NothingSpooled
  /\ SpooledNotOvertaken

-----------------------------------------------------------------------------
(* Sequences                                                               *)

(* The range of a sequence, and of what is made of it.                     *)
LEMMA RangeOfSequence ==
  ASSUME NEW S, NEW q \in Seq(S)
  PROVE  /\ Range(q) \subseteq S
         /\ \A m : m \in Range(q) <=> \E i \in 1 .. Len(q) : q[i] = m
  BY DEF Range

(* What is in a sequence after a push.                                     *)
LEMMA RangeOfAppend ==
  ASSUME NEW S, NEW q \in Seq(S), NEW m \in S
  PROVE  Append(q, m) \in Seq(S) /\ Range(Append(q, m)) = Range(q) \union {m}
<1>1. /\ Append(q, m) \in Seq(S) /\ Len(Append(q, m)) = Len(q) + 1
      /\ \A i \in 1 .. Len(q) : Append(q, m)[i] = q[i]
      /\ Append(q, m)[Len(q) + 1] = m
  OBVIOUS
<1>2. \A i \in 1 .. Len(q) + 1 : i \in 1 .. Len(q) \/ i = Len(q) + 1
  OBVIOUS
<1>3. \A x : x \in Range(q) <=> \E i \in 1 .. Len(q) : q[i] = x
  BY RangeOfSequence
<1>4. \A x : x \in Range(Append(q, m)) <=> \E i \in 1 .. Len(q) + 1 : Append(q, m)[i] = x
  <2>1. \A x : x \in Range(Append(q, m)) <=> \E i \in 1 .. Len(Append(q, m)) : Append(q, m)[i] = x
    BY RangeOfSequence, Append(q, m) \in Seq(S)
  <2> QED BY <1>1, <2>1
<1>5. ASSUME NEW x PROVE x \in Range(Append(q, m)) <=> x \in Range(q) \union {m}
  <2>1. ASSUME x \in Range(Append(q, m)) PROVE x \in Range(q) \union {m}
    BY <1>1, <1>2, <1>3, <1>4, <2>1
  <2>2. ASSUME x \in Range(q) PROVE x \in Range(Append(q, m))
    BY <1>1, <1>3, <1>4, <2>2
  <2>3. m \in Range(Append(q, m))
    BY <1>1, <1>4
  <2> QED BY <2>1, <2>2, <2>3
<1> QED BY <1>1, <1>5

(* What is in a sequence after its head is taken.                          *)
LEMMA RangeOfTail ==
  ASSUME NEW S, NEW q \in Seq(S), q # << >>
  PROVE  /\ Tail(q) \in Seq(S) /\ Head(q) \in S
         /\ Range(q) = {Head(q)} \union Range(Tail(q))
<1>1. /\ Tail(q) \in Seq(S) /\ Len(Tail(q)) = Len(q) - 1 /\ Len(q) > 0
      /\ \A i \in 1 .. Len(q) - 1 : Tail(q)[i] = q[i + 1]
      /\ Head(q) = q[1] /\ Head(q) \in S
  OBVIOUS
<1>2. \A i \in 1 .. Len(q) : i = 1 \/ (i - 1 \in 1 .. Len(q) - 1 /\ i = (i - 1) + 1)
  BY <1>1
<1>3. \A x : x \in Range(q) <=> \E i \in 1 .. Len(q) : q[i] = x
  BY RangeOfSequence
<1>4. \A x : x \in Range(Tail(q)) <=> \E i \in 1 .. Len(q) - 1 : Tail(q)[i] = x
  <2>1. \A x : x \in Range(Tail(q)) <=> \E i \in 1 .. Len(Tail(q)) : Tail(q)[i] = x
    BY RangeOfSequence, Tail(q) \in Seq(S)
  <2> QED BY <1>1, <2>1
<1>5. ASSUME NEW x PROVE x \in Range(q) <=> x \in {Head(q)} \union Range(Tail(q))
  <2>1. ASSUME x \in Range(q) PROVE x \in {Head(q)} \union Range(Tail(q))
    <3>1. PICK i \in 1 .. Len(q) : q[i] = x
      BY <1>3, <2>1
    <3>2. CASE i = 1
      BY <1>1, <3>1, <3>2
    <3>3. CASE i - 1 \in 1 .. Len(q) - 1
      BY <1>1, <1>4, <3>1, <3>3
    <3> QED BY <1>2, <3>2, <3>3
  <2>2. ASSUME x \in Range(Tail(q)) PROVE x \in Range(q)
    <3>1. PICK i \in 1 .. Len(q) - 1 : Tail(q)[i] = x
      BY <1>4, <2>2
    <3>2. i + 1 \in 1 .. Len(q) /\ q[i + 1] = x
      BY <1>1, <3>1
    <3> QED BY <1>3, <3>2
  <2>3. Head(q) \in Range(q)
    BY <1>1, <1>3
  <2> QED BY <2>1, <2>2, <2>3
<1> QED BY <1>1, <1>5

(* Nothing is in the empty sequence.                                       *)
LEMMA RangeOfEmpty == Range(<< >>) = {}
  BY DEF Range

(* One message is in the sequence of that message.                         *)
LEMMA RangeOfOne == ASSUME NEW m PROVE Range(<<m>>) = {m}
  BY DEF Range

(* Appending what is later, and taking what is first, leaves a sequence    *)
(* sorted.                                                                 *)
LEMMA SortedAppend ==
  ASSUME NEW q \in Seq(Messages), NEW m \in Messages, Sorted(q), Precede(Range(q), {m})
  PROVE  Sorted(Append(q, m))
<1>1. /\ Len(Append(q, m)) = Len(q) + 1 /\ DOMAIN Append(q, m) = 1 .. Len(q) + 1
      /\ \A i \in 1 .. Len(q) : Append(q, m)[i] = q[i]
      /\ Append(q, m)[Len(q) + 1] = m
  OBVIOUS
<1>2. \A i \in 1 .. Len(q) : q[i] \in Range(q)
  BY RangeOfSequence
<1>3. \A i \in 1 .. Len(q) : q[i].from = m.from => q[i].n < m.n
  BY <1>2 DEF Precede
<1>4. DOMAIN q = 1 .. Len(q)
  OBVIOUS
<1> QED BY <1>1, <1>3, <1>4 DEF Sorted

(* A sorted sequence without its head is sorted.                           *)
LEMMA SortedTail ==
  ASSUME NEW q \in Seq(Messages), q # << >>, Sorted(q)
  PROVE  Sorted(Tail(q)) /\ Precede({Head(q)}, Range(Tail(q)))
<1>1. /\ Tail(q) \in Seq(Messages) /\ Len(Tail(q)) = Len(q) - 1 /\ Len(q) > 0
      /\ DOMAIN q = 1 .. Len(q) /\ DOMAIN Tail(q) = 1 .. Len(q) - 1
      /\ \A i \in 1 .. Len(q) - 1 : Tail(q)[i] = q[i + 1] /\ i + 1 \in 1 .. Len(q)
      /\ Head(q) = q[1] /\ 1 \in 1 .. Len(q)
  OBVIOUS
<1>2. Sorted(Tail(q))
  BY <1>1 DEF Sorted
<1>3. ASSUME NEW b \in Range(Tail(q)), Head(q).from = b.from
      PROVE  Head(q).n < b.n
  <2>1. PICK i \in 1 .. Len(q) - 1 : Tail(q)[i] = b
    <3>1. PICK i \in 1 .. Len(Tail(q)) : Tail(q)[i] = b
      BY RangeOfSequence, Tail(q) \in Seq(Messages)
    <3> QED BY <1>1, <3>1
  <2>2. b = q[i + 1] /\ 1 < i + 1
    BY <1>1, <2>1
  <2> QED BY <1>1, <1>3, <2>2 DEF Sorted
<1> QED BY <1>2, <1>3 DEF Precede

(* What cull leaves of a queue is sorted, and what it does not leave is in *)
(* the file.                                                               *)
LEMMA CulledSequence ==
  ASSUME NEW q \in Seq(Messages), NEW i \in 1 .. Len(q) + 1, NEW j \in i - 1 .. Len(q)
  PROVE  /\ Culled(q, i, j) \in Seq(Messages)
         /\ Range(Culled(q, i, j)) \subseteq Range(q)
         /\ Range(q) \subseteq Range(Culled(q, i, j)) \union Range(SubSeq(q, i, j))
         /\ Range(SubSeq(q, i, j)) \subseteq Messages
         /\ Sorted(q) => Sorted(Culled(q, i, j))
<1> DEFINE a == SubSeq(q, 1, i - 1)
           b == SubSeq(q, j + 1, Len(q))
           c == SubSeq(q, i, j)
           Old(k) == IF k <= i - 1 THEN k ELSE k + (j + 1 - i)
<1>1. /\ a \in Seq(Messages) /\ Len(a) = i - 1
      /\ \A k \in 1 .. i - 1 : a[k] = q[k]
  OBVIOUS
<1>2. /\ b \in Seq(Messages) /\ Len(b) = Len(q) - j
      /\ \A k \in 1 .. Len(q) - j : b[k] = q[k + j]
  OBVIOUS
<1>3. /\ c \in Seq(Messages) /\ Len(c) = j + 1 - i
      /\ \A k \in 1 .. j + 1 - i : c[k] = q[k + i - 1]
  OBVIOUS
<1> HIDE DEF a, b, c
<1>4. Culled(q, i, j) = a \o b
  BY DEF Culled, a, b
<1>5. /\ a \o b \in Seq(Messages) /\ Len(a \o b) = Len(a) + Len(b)
      /\ DOMAIN (a \o b) = 1 .. Len(a) + Len(b)
      /\ \A k \in 1 .. Len(a) : (a \o b)[k] = a[k]
      /\ \A k \in Len(a) + 1 .. Len(a) + Len(b) : (a \o b)[k] = b[k - Len(a)]
  <2>1. a \in Seq(Messages) /\ b \in Seq(Messages)
    BY <1>1, <1>2
  <2>2. /\ a \o b \in Seq(Messages) /\ Len(a \o b) = Len(a) + Len(b)
        /\ \A k \in 1 .. Len(a) + Len(b) :
             (a \o b)[k] = IF k <= Len(a) THEN a[k] ELSE b[k - Len(a)]
    BY <2>1, ConcatProperties
  <2>3. DOMAIN (a \o b) = 1 .. Len(a \o b) /\ Len(a) \in Nat /\ Len(b) \in Nat
    BY <2>1, <2>2, LenProperties
  <2> QED BY <2>2, <2>3
<1>6. \A k \in 1 .. Len(a) + Len(b) : Old(k) \in 1 .. Len(q) /\ (a \o b)[k] = q[Old(k)]
  <2> SUFFICES ASSUME NEW k \in 1 .. Len(a) + Len(b)
               PROVE  Old(k) \in 1 .. Len(q) /\ (a \o b)[k] = q[Old(k)]
    OBVIOUS
  <2>1. CASE k <= i - 1
    <3>1. Old(k) = k /\ k \in 1 .. Len(a) /\ k \in 1 .. i - 1 /\ k \in 1 .. Len(q)
      BY <1>1, <2>1
    <3>2. (a \o b)[k] = a[k] /\ a[k] = q[k]
      BY <1>1, <1>5, <3>1
    <3> HIDE DEF Old
    <3> QED BY <3>1, <3>2
  <2>2. CASE k > i - 1
    <3>1. k - Len(a) \in 1 .. Len(q) - j /\ k \in Len(a) + 1 .. Len(a) + Len(b)
      <4>1. /\ Len(a) = i - 1 /\ Len(b) = Len(q) - j
            /\ Len(q) \in Nat /\ i \in Nat \ {0} /\ j \in Nat /\ j <= Len(q) /\ k \in Nat
        BY <1>1, <1>2, LenProperties
      <4> QED BY <2>2, <4>1
    <3>2. (a \o b)[k] = b[k - Len(a)]
      BY <1>5, <3>1
    <3>3. b[k - Len(a)] = q[(k - Len(a)) + j]
      BY <1>2, <3>1
    <3>4. Old(k) = (k - Len(a)) + j /\ Old(k) \in 1 .. Len(q)
      BY <1>1, <1>2, <2>2
    <3> QED BY <3>2, <3>3, <3>4
  <2>3. k <= i - 1 \/ k > i - 1
    BY <1>1, <1>2
  <2> HIDE DEF Old
  <2> QED BY <2>1, <2>2, <2>3
<1>7. \A k, l \in 1 .. Len(a) + Len(b) : k < l => Old(k) < Old(l)
  BY <1>1, <1>2
<1> HIDE DEF Old
<1>8. /\ Range(q) \subseteq Messages /\ DOMAIN q = 1 .. Len(q)
      /\ \A m : m \in Range(q) <=> \E k \in 1 .. Len(q) : q[k] = m
  BY RangeOfSequence
<1>9. \A m : m \in Range(a \o b) <=> \E k \in 1 .. Len(a) + Len(b) : (a \o b)[k] = m
  BY <1>5 DEF Range
<1>10. \A m : m \in Range(c) <=> \E k \in 1 .. j + 1 - i : c[k] = m
  <2>1. DOMAIN c = 1 .. j + 1 - i
    BY <1>3, LenProperties
  <2> QED BY <2>1 DEF Range
<1>11. Range(a \o b) \subseteq Range(q)
  BY <1>6, <1>8, <1>9
<1>12. ASSUME NEW m \in Range(q)
       PROVE  m \in Range(a \o b) \union Range(c)
  <2>1. PICK k \in 1 .. Len(q) : q[k] = m
    BY <1>8
  <2>2. CASE k < i
    <3>1. k \in 1 .. Len(a) /\ (a \o b)[k] = m
      BY <1>1, <1>5, <2>1, <2>2
    <3> QED BY <1>2, <1>9, <3>1
  <2>3. CASE k \in i .. j
    <3>1. k - i + 1 \in 1 .. j + 1 - i /\ c[k - i + 1] = m
      BY <1>3, <2>1, <2>3
    <3> QED BY <1>10, <3>1
  <2>4. CASE k > j
    <3>1. k - j \in 1 .. Len(b) /\ b[k - j] = m
      BY <1>2, <2>1, <2>4
    <3>2. Len(a) + (k - j) \in Len(a) + 1 .. Len(a) + Len(b)
      BY <1>1, <1>2, <3>1
    <3>3. (a \o b)[Len(a) + (k - j)] = m
      BY <1>1, <1>2, <1>5, <3>1, <3>2
    <3>4. Len(a) + (k - j) \in 1 .. Len(a) + Len(b)
      BY <1>1, <1>2, <3>1
    <3> QED BY <1>9, <3>3, <3>4
  <2> QED BY <2>2, <2>3, <2>4
<1>13. Range(c) \subseteq Messages
  BY <1>3, RangeOfSequence
<1>14. Sorted(q) => Sorted(a \o b)
  <2>1. SUFFICES ASSUME Sorted(q), NEW k \in 1 .. Len(a) + Len(b), NEW l \in 1 .. Len(a) + Len(b),
                        k < l, (a \o b)[k].from = (a \o b)[l].from
                 PROVE  (a \o b)[k].n < (a \o b)[l].n
    BY <1>5 DEF Sorted
  <2>2. Old(k) \in DOMAIN q /\ Old(l) \in DOMAIN q /\ Old(k) < Old(l)
    BY <1>6, <1>7, <1>8, <2>1
  <2>3. q[Old(k)].from = q[Old(l)].from
    BY <1>6, <2>1
  <2>4. q[Old(k)].n < q[Old(l)].n
    BY <2>1, <2>2, <2>3 DEF Sorted
  <2> QED BY <1>6, <2>4
<1> QED BY <1>4, <1>5, <1>11, <1>12, <1>13, <1>14 DEF c

-----------------------------------------------------------------------------
(* Types                                                                   *)

(* The current message of a thread is a message.                           *)
LEMMA CurrentIsMessage ==
  ASSUME TypeOK, NEW t \in Threads
  PROVE  Current(t) \in Messages /\ Current(t).from = t /\ Current(t).n = sent[t]
  BY DEF TypeOK, Current, Message, Messages

(* Initially only earlier runs have messages.                              *)
LEMMA TInit == Init => TInv
<1> SUFFICES ASSUME Init PROVE TInv
  OBVIOUS
<1>1. \A left \in 0 .. MaxLeftover :
        LET q == [i \in 1 .. left |-> Message(Spooler, i)]
        IN  q \in Seq(Messages) /\ Range(q) \subseteq Messages
  <2>1. ASSUME NEW left \in 0 .. MaxLeftover
        PROVE  [i \in 1 .. left |-> Message(Spooler, i)] \in Seq(Messages)
    BY RouterAssumption DEF Message, Messages, Threads
  <2> QED BY <2>1, RangeOfSequence
<1>2. spool \in Seq(Messages) /\ spooled \subseteq Messages /\ oldFiles \in BOOLEAN
  BY <1>1, RouterAssumption DEF Init
<1>3. << >> \in Seq(Messages) /\ Len(<< >>) <= PipeLimit
  BY RouterAssumption
<1>4. TypeOK
  <2>1. Init => /\ state \in States /\ pipe \in [Threads -> Seq(Messages)]
                /\ \A t \in Threads : Len(pipe[t]) <= PipeLimit
                /\ forwarded \in Seq(Messages) /\ hand \in Seq(Messages)
    BY <1>3 DEF Init, States
  <2>2. Init => /\ ready \in BOOLEAN /\ pc \in [Threads -> {"idle", "look", "push", "send"}]
                /\ sent \in [Threads -> Nat] /\ events \in 0 .. MaxEvents
    BY RouterAssumption DEF Init
  <2>3. Init => /\ stop \in BOOLEAN /\ newFiles \in BOOLEAN /\ gone \subseteq Messages
                /\ worker = "start" /\ spooler = "wait"
    BY DEF Init
  <2>4. Init => /\ destroyer = "no" /\ sockets \subseteq Senders
                /\ unread \in 0 .. WireLimit
    BY RouterAssumption DEF Init
  <2> QED BY <1>2, <2>1, <2>2, <2>3, <2>4 DEF TypeOK
<1> QED BY <1>4 DEF TInv, Shape, Init, Threads

(* A step leaves the variables in their types, and the spool thread with   *)
(* one message in its hand when it sends.                                  *)
LEMMA TNext == TInv /\ [Next]_vars => TInv'
<1> SUFFICES ASSUME TInv, [Next]_vars PROVE TInv'
  OBVIOUS
<1> USE DEF TInv, stopVars, wireVars
<1>t. /\ Spooler \in Threads /\ Heartbeat \in Threads /\ Senders \subseteq Threads
      /\ Spooler \notin Senders /\ Heartbeat \notin Senders /\ Spooler # Heartbeat
  BY RouterAssumption DEF Threads
<1>p. \A t \in Threads : pipe[t] \in Seq(Messages)
  BY DEF TypeOK
<1>c. \A t \in Threads : Current(t) \in Messages
  BY CurrentIsMessage
<1>1. ASSUME NEW s \in Senders, ReadState(s) PROVE TInv'
  <2>1. /\ UNCHANGED <<state, events, worker, forwarded, unread, spooler, hand, ready>>
        /\ UNCHANGED <<spool, oldFiles, newFiles, spooled, stop, destroyer, pipe, gone>>
    BY <1>1 DEF ReadState, spoolVars, workerVars, spoolerVars
  <2>2. sockets' \subseteq Senders
    BY <1>1 DEF ReadState, OpenSocket, TypeOK
  <2>3. sent' \in [Threads -> Nat]
    BY <1>1, <1>t DEF ReadState, TypeOK
  <2>4. /\ pc' \in [Threads -> {"idle", "look", "push", "send"}]
        /\ pc'[Spooler] = pc[Spooler] /\ pc'[Heartbeat] = pc[Heartbeat]
    BY <1>1, <1>t DEF ReadState, Goto, TypeOK
  <2> QED BY <2>1, <2>2, <2>3, <2>4 DEF TypeOK, Shape
<1>2. CASE \E t \in Threads : LookAtSpool(t)
  BY <1>2, <1>t DEF TypeOK, Shape, LookAtSpool, Goto, spoolVars, workerVars, wireVars, spoolerVars
<1>3. ASSUME NEW t \in Threads, PushToSpool(t) PROVE TInv'
  <2> DEFINE all == Append(spool, Current(t))
  <2>1. all \in Seq(Messages) /\ Current(t) \in Messages
    BY <1>c, AppendProperties DEF TypeOK
  <2>2. PICK i \in 1 .. Len(all) + 1 : \E j \in i - 1 .. Len(all) :
           spool' = Culled(all, i, j) /\ gone' = gone \union Range(SubSeq(all, i, j))
    BY <1>3 DEF PushToSpool
  <2>3. PICK j \in i - 1 .. Len(all) :
           spool' = Culled(all, i, j) /\ gone' = gone \union Range(SubSeq(all, i, j))
    BY <2>2
  <2> HIDE DEF all
  <2>4. Culled(all, i, j) \in Seq(Messages) /\ Range(SubSeq(all, i, j)) \subseteq Messages
    BY <2>1, CulledSequence
  <2>5. spool' \in Seq(Messages) /\ gone' \subseteq Messages
    BY <2>3, <2>4 DEF TypeOK
  <2>6. spooled' \subseteq Messages /\ newFiles' \in BOOLEAN
    BY <1>3, <2>1 DEF TypeOK, PushToSpool
  <2>7. /\ pc' \in [Threads -> {"idle", "look", "push", "send"}]
        /\ pc'[Spooler] = "idle" /\ pc'[Heartbeat] \in {"idle", "send"}
    BY <1>3, <1>t DEF TypeOK, Shape, PushToSpool, Goto
  <2>8. /\ UNCHANGED <<oldFiles, sent, pipe, stop, destroyer, sockets>>
        /\ UNCHANGED <<state, events, worker, forwarded, unread, spooler, hand, ready>>
    BY <1>3 DEF PushToSpool, workerVars, spoolerVars
  <2>9. TypeOK'
    <3>1. /\ spool' \in Seq(Messages) /\ gone' \subseteq Messages
          /\ spooled' \subseteq Messages /\ newFiles' \in BOOLEAN
          /\ pc' \in [Threads -> {"idle", "look", "push", "send"}]
      BY <2>5, <2>6, <2>7
    <3> QED BY <2>8, <3>1 DEF TypeOK
  <2> QED BY <2>7, <2>8, <2>9 DEF Shape
<1>4. ASSUME NEW t \in Threads, CallFails(t) \/ DanglingCallFails(t) PROVE TInv'
  <2>1. gone' \subseteq Messages
    BY <1>4, <1>c DEF TypeOK, CallFails, PushFails, SendTransientFails, DanglingCallFails
  <2>2. /\ UNCHANGED <<sent, spoolVars, workerVars, spoolerVars, stopVars, pipe>>
        /\ pc' = [pc EXCEPT ![t] = "idle"]
    BY <1>4 DEF CallFails, PushFails, SendTransientFails, DanglingCallFails, Goto
  <2> QED BY <2>1, <2>2, <1>t DEF TypeOK, Shape, spoolVars, workerVars, wireVars, spoolerVars
<1>5. ASSUME NEW t \in Threads, SendTransient(t) PROVE TInv'
  <2>1. /\ Append(pipe[t], Current(t)) \in Seq(Messages)
        /\ Len(Append(pipe[t], Current(t))) <= PipeLimit
    BY <1>5, <1>p, <1>c, RouterAssumption DEF SendTransient, CanSend
  <2> QED BY <1>5, <2>1, <1>t
       DEF TypeOK, Shape, SendTransient, Goto, spoolVars, workerVars, wireVars, spoolerVars
<1>6. CASE Beat
  BY <1>6, <1>t DEF TypeOK, Shape, Beat, Goto, spoolVars, workerVars, wireVars, spoolerVars
<1>7. CASE Wake \/ LeaveLoop \/ PopNothing
  BY <1>7 DEF TypeOK, Shape, Wake, LeaveLoop, PopNothing, spoolVars, workerVars, wireVars, senderVars
<1>8. CASE PopMessage
  <2>1. Tail(spool) \in Seq(Messages) /\ Head(spool) \in Messages
    BY <1>8, RangeOfTail DEF PopMessage, TypeOK
  <2>2. hand' \in Seq(Messages) /\ hand' = <<Head(spool)>>
    BY <1>8, <2>1 DEF PopMessage
  <2> QED BY <1>8, <2>1, <2>2 DEF TypeOK, Shape, PopMessage, workerVars, wireVars, senderVars
<1>9. CASE SpoolerSends
  <2>1. PICK m \in Messages : hand = <<m>>
    BY <1>9 DEF SpoolerSends, Shape
  <2>2. /\ pipe[Spooler] \o hand \in Seq(Messages)
        /\ Len(pipe[Spooler] \o hand) <= PipeLimit
    BY <1>9, <2>1, <1>p, <1>t, RouterAssumption DEF SpoolerSends, CanSend
  <2> QED BY <1>9, <2>2, <1>t DEF TypeOK, Shape, SpoolerSends, spoolVars, workerVars, wireVars, senderVars
<1>10. CASE SpoolerSendFails
  <2>1. Range(hand) \subseteq Messages
    BY RangeOfSequence DEF TypeOK
  <2> QED BY <1>10, <2>1 DEF TypeOK, Shape, SpoolerSendFails, spoolVars, workerVars, wireVars, senderVars
<1>11. CASE FreeParts
  BY <1>11 DEF TypeOK, Shape, FreeParts, spoolVars, workerVars, wireVars, senderVars
<1>12. CASE WorkerExits
  <2>1. UNION {Range(pipe[t]) : t \in Threads} \subseteq Messages
    BY <1>p, RangeOfSequence
  <2>2. << >> \in Seq(Messages) /\ Len(<< >>) <= PipeLimit
    BY RouterAssumption
  <2> QED BY <1>12, <2>1, <2>2 DEF TypeOK, Shape, WorkerExits, spoolVars, spoolerVars, senderVars
<1>13. CASE CreateSockets \/ Poll \/ NothingToForward \/ NoMonitorEvent
  BY <1>13 DEF TypeOK, Shape, CreateSockets, Poll, NothingToForward, NoMonitorEvent,
                spoolVars, spoolerVars, senderVars
<1>14. ASSUME NEW st \in ReportedStates, MonitorEvent(st) PROVE TInv'
  BY <1>14, RouterAssumption DEF TypeOK, Shape, MonitorEvent, spoolVars, spoolerVars, senderVars
<1>15. ASSUME NEW t \in Threads, ForwardOne(t) PROVE TInv'
  <2>1. Tail(pipe[t]) \in Seq(Messages) /\ Head(pipe[t]) \in Messages
    BY <1>15, <1>p, RangeOfTail DEF ForwardOne
  <2>2. Append(forwarded, Head(pipe[t])) \in Seq(Messages)
    BY <2>1 DEF TypeOK
  <2>3. Len(Tail(pipe[t])) <= PipeLimit
    <3>1. Len(Tail(pipe[t])) = Len(pipe[t]) - 1 /\ Len(pipe[t]) \in Nat /\ Len(pipe[t]) <= PipeLimit
      BY <1>15, <1>p DEF ForwardOne, TypeOK
    <3> QED BY <3>1, RouterAssumption
  <2>4. unread' \in 0 .. WireLimit
    BY <1>15, RouterAssumption DEF ForwardOne, WireFull, TypeOK
  <2>5. /\ worker' = "monitor"
        /\ forwarded' = Append(forwarded, Head(pipe[t]))
        /\ pipe' = [pipe EXCEPT ![t] = Tail(@)]
        /\ UNCHANGED <<state, events, stop, destroyer, sockets, spool, oldFiles, newFiles, spooled>>
        /\ UNCHANGED <<spooler, hand, ready, pc, sent, gone>>
    BY <1>15 DEF ForwardOne, spoolVars, spoolerVars, senderVars
  <2>6. /\ pipe' \in [Threads -> Seq(Messages)]
        /\ \A s \in Threads : Len(pipe'[s]) <= PipeLimit
    BY <2>1, <2>3, <2>5 DEF TypeOK
  <2>7. TypeOK'
    BY <2>2, <2>4, <2>5, <2>6 DEF TypeOK
  <2> QED BY <2>5, <2>7 DEF Shape
<1>16. CASE PeerReads
  <2>1. unread' \in 0 .. WireLimit
    BY <1>16, RouterAssumption DEF PeerReads, TypeOK
  <2> QED BY <1>16, <2>1 DEF TypeOK, Shape, PeerReads, spoolVars, spoolerVars, senderVars
<1>17. CASE DestroySenders \/ Stop \/ DestroyRouter \/ (\E s \in Senders : Crash(s))
  <2>1. /\ UNCHANGED <<spoolVars, workerVars, spoolerVars, senderVars, pipe, gone>>
        /\ stop' \in {stop, TRUE} /\ sockets' \in {sockets, {}}
        /\ destroyer' \in {"senders", "worker", "spooler", "term", "done", "crashed"}
    BY <1>17 DEF DestroySenders, Stop, DestroyRouter, JoinWorker, JoinSpooler, TermContext, Crash
  <2>2. UNCHANGED <<spool, oldFiles, newFiles, spooled, state, events, worker, forwarded, unread,
                    spooler, hand, ready, pc, sent, pipe, gone>>
    BY <2>1 DEF spoolVars, workerVars, wireVars, spoolerVars, senderVars
  <2>3. stop' \in BOOLEAN /\ sockets' \subseteq Senders
    BY <2>1 DEF TypeOK
  <2> QED BY <2>1, <2>2, <2>3 DEF TypeOK, Shape
<1>18. CASE UNCHANGED vars
  BY <1>18 DEF TypeOK, Shape, vars, spoolVars, workerVars, wireVars, spoolerVars, senderVars
<1> QED BY <1>1, <1>2, <1>3, <1>4, <1>5, <1>6, <1>7, <1>8, <1>9, <1>10, <1>11, <1>12, <1>13, <1>14,
          <1>15, <1>16, <1>17, <1>18, <1>t
       DEF Next, Continue, SpoolMain, SocketWorker, WorkerFails, CreateSocketsFails, EventFails,
           WorkerStops, Ended

(* Every reachable state of the router link is well typed, the pipes hold  *)
(* no more than their limit, and the spool thread sends what it has popped.*)
THEOREM LinkTypeCorrect == Spec => []TInv
  BY TInit, TNext, PTL DEF Spec

(* The steps of the destruction, among them a crash, move no message.      *)
Destruction == DestroySenders \/ Stop \/ DestroyRouter \/ \E s \in Senders : Crash(s)

LEMMA DestructionMovesNothing ==
  Destruction => UNCHANGED <<spoolVars, workerVars, spoolerVars, senderVars, pipe, gone>>
  BY DEF Destruction, DestroySenders, Stop, DestroyRouter, JoinWorker, JoinSpooler, TermContext, Crash

(* What a push does to the spool: it and what is dropped have what there   *)
(* was and the new message, which is the last.                             *)
LEMMA Pushed ==
  ASSUME TypeOK, NEW t \in Threads, PushToSpool(t)
  PROVE  /\ Range(spool') \subseteq Range(spool) \union {Current(t)}
         /\ Range(spool) \union {Current(t)} \subseteq Range(spool') \union gone'
         /\ gone \subseteq gone'
         /\ Sorted(spool) /\ Precede(Range(spool), {Current(t)}) => Sorted(spool')
<1> DEFINE all == Append(spool, Current(t))
<1>1. Current(t) \in Messages /\ spool \in Seq(Messages)
  BY CurrentIsMessage DEF TypeOK
<1>2. all \in Seq(Messages) /\ Range(all) = Range(spool) \union {Current(t)}
  BY <1>1, RangeOfAppend
<1>3. Sorted(spool) /\ Precede(Range(spool), {Current(t)}) => Sorted(all)
  BY <1>1, SortedAppend
<1>4. PICK i \in 1 .. Len(all) + 1 : \E j \in i - 1 .. Len(all) :
        spool' = Culled(all, i, j) /\ gone' = gone \union Range(SubSeq(all, i, j))
  BY DEF PushToSpool
<1>5. PICK j \in i - 1 .. Len(all) :
        spool' = Culled(all, i, j) /\ gone' = gone \union Range(SubSeq(all, i, j))
  BY <1>4
<1> HIDE DEF all
<1>6. /\ Range(spool') \subseteq Range(all)
      /\ Range(all) \subseteq Range(spool') \union Range(SubSeq(all, i, j))
      /\ Sorted(all) => Sorted(spool')
  BY <1>2, <1>5, CulledSequence
<1> QED BY <1>2, <1>3, <1>5, <1>6

(* What the spool thread holds when it sends.                              *)
LEMMA SpoolerHolds ==
  ASSUME TInv, spooler = "send"
  PROVE  \E m \in Messages : hand = <<m>> /\ Held = {m} /\ Range(hand) = {m}
<1>1. PICK m \in Messages : hand = <<m>>
  BY DEF TInv, Shape
<1> QED BY <1>1, RangeOfOne DEF Held

(* Its pipe after it has sent.                                             *)
LEMMA SpoolerSent ==
  ASSUME TInv, SpoolerSends
  PROVE  /\ pipe'[Spooler] \in Seq(Messages)
         /\ Range(pipe'[Spooler]) = Range(pipe[Spooler]) \union Held
         /\ Held' = {}
         /\ \A t \in Threads \ {Spooler} : pipe'[t] = pipe[t]
         /\ Sorted(pipe[Spooler]) /\ Precede(Range(pipe[Spooler]), Held) => Sorted(pipe'[Spooler])
<1>1. PICK m \in Messages : hand = <<m>> /\ Held = {m}
  BY SpoolerHolds DEF SpoolerSends
<1>2. Spooler \in Threads /\ pipe[Spooler] \in Seq(Messages)
  BY DEF Threads, TInv, TypeOK
<1>3. pipe[Spooler] \o <<m>> = Append(pipe[Spooler], m)
  BY <1>2, AppendIsConcat
<1>4. pipe' = [pipe EXCEPT ![Spooler] = Append(pipe[Spooler], m)]
  BY <1>1, <1>3 DEF SpoolerSends
<1>5. pipe'[Spooler] = Append(pipe[Spooler], m) /\ \A t \in Threads \ {Spooler} : pipe'[t] = pipe[t]
  BY <1>2, <1>4 DEF TInv, TypeOK
<1>6. Held' = {}
  BY DEF SpoolerSends, Held
<1> QED BY <1>1, <1>2, <1>5, <1>6, RangeOfAppend, SortedAppend

-----------------------------------------------------------------------------
(* Every message is accounted for                                          *)

Safe(m) ==
  \/ \E t \in Threads : m \in Range(pipe[t])
  \/ m \in Range(spool) \/ m \in Range(forwarded) \/ m \in Held \/ m \in gone

AInv ==
  \A t \in Senders \union {Heartbeat} : \A n \in 1 .. sent[t] :
    \/ pc[t] # "idle" /\ n = sent[t]
    \/ Safe(Message(t, n))

(* AInv says of every message that was sent what Accounted asks.           *)
LEMMA AccountedBySafe == TypeOK /\ AInv => Accounted
<1> SUFFICES ASSUME TypeOK, AInv, NEW t \in Senders \union {Heartbeat}, NEW n \in 1 .. sent[t]
             PROVE  \/ pc[t] # "idle" /\ n = sent[t]
                    \/ Message(t, n) \in (UNION {Range(q) : q \in Range(pipe) \union {spool, forwarded}})
                                           \union Held \union gone
  BY DEF Accounted
<1>1. \A u \in Threads : pipe[u] \in Range(pipe)
  BY DEF TypeOK, Range
<1> QED BY <1>1 DEF AInv, Safe

(* A step of a thread that moves no message keeps AInv.                    *)
LEMMA AKeep ==
  ASSUME AInv, UNCHANGED <<pc, sent>>, \A m : Safe(m) => Safe(m)'
  PROVE  AInv'
  BY DEF AInv, Message

(* A thread may return once its message is safe.                           *)
LEMMA AReturn ==
  ASSUME TypeOK, AInv, NEW t \in Threads, UNCHANGED sent, Goto(t, "idle"),
         \A m : Safe(m) => Safe(m)', Safe(Current(t))'
  PROVE  AInv'
<1>1. \A u \in Threads : pc'[u] = IF u = t THEN "idle" ELSE pc[u]
  BY DEF TypeOK, Goto
<1>2. Message(t, sent[t])' = Current(t) /\ Current(t)' = Current(t)
  BY DEF Message, Current
<1> SUFFICES ASSUME NEW u \in Senders \union {Heartbeat}, NEW n \in 1 .. sent[u]
             PROVE  (pc'[u] # "idle" /\ n = sent[u]) \/ Safe(Message(u, n))'
  BY DEF AInv, Message
<1>3. (pc[u] # "idle" /\ n = sent[u]) \/ Safe(Message(u, n))
  BY DEF AInv
<1>4. CASE u = t /\ n = sent[t]
  BY <1>4 DEF Message, Current
<1>5. CASE ~ (u = t /\ n = sent[t])
  BY <1>1, <1>3, <1>5 DEF Message, Threads
<1> QED BY <1>4, <1>5

(* A step loses no message without a reason.                               *)
LEMMA ANext == TInv /\ AInv /\ [Next]_vars => AInv'
<1> SUFFICES ASSUME TInv, AInv, [Next]_vars PROVE AInv'
  OBVIOUS
<1>t. /\ TypeOK /\ Spooler \in Threads /\ Heartbeat \in Threads /\ Senders \subseteq Threads
      /\ \A t \in Threads : pipe[t] \in Seq(Messages)
  BY DEF TInv, TypeOK, Threads
<1>1. ASSUME NEW s \in Senders \union {Heartbeat}, ReadState(s) \/ (s = Heartbeat /\ Beat) PROVE AInv'
  <2>1. /\ sent' = [sent EXCEPT ![s] = @ + 1] /\ pc[s] = "idle"
        /\ \E l \in {"look", "push", "send"} : pc' = [pc EXCEPT ![s] = l]
    BY <1>1 DEF ReadState, Beat, Goto
  <2>2. \A m : Safe(m) => Safe(m)'
    BY <1>1 DEF ReadState, Beat, Safe, Held, spoolVars, workerVars, wireVars, spoolerVars
  <2>3. /\ sent'[s] = sent[s] + 1 /\ pc'[s] # "idle" /\ sent[s] \in Nat
        /\ \A u \in Threads \ {s} : sent'[u] = sent[u] /\ pc'[u] = pc[u]
    BY <2>1, <1>t DEF TypeOK
  <2> SUFFICES ASSUME NEW u \in Senders \union {Heartbeat}, NEW n \in 1 .. sent'[u]
               PROVE  (pc'[u] # "idle" /\ n = sent'[u]) \/ Safe(Message(u, n))'
    BY DEF AInv, Message
  <2>4. CASE u = s
    <3>1. n = sent[s] + 1 \/ n \in 1 .. sent[s]
      BY <2>3, <2>4
    <3>2. n \in 1 .. sent[s] => Safe(Message(s, n))
      BY <2>1, <2>4 DEF AInv
    <3> QED BY <2>2, <2>3, <2>4, <3>1, <3>2 DEF Message
  <2>5. CASE u # s
    <3>1. sent'[u] = sent[u] /\ pc'[u] = pc[u]
      BY <1>t, <2>3, <2>5
    <3> QED BY <2>2, <3>1 DEF AInv, Message
  <2> QED BY <2>4, <2>5
<1>2. ASSUME NEW t \in Threads, LookAtSpool(t) PROVE AInv'
  <2>1. \A m : Safe(m) => Safe(m)'
    BY <1>2 DEF LookAtSpool, Safe, Held, spoolVars, workerVars, wireVars, spoolerVars
  <2>2. \A u \in Threads : pc[u] # "idle" => pc'[u] # "idle"
    BY <1>2, <1>t DEF LookAtSpool, Goto, TypeOK
  <2>3. sent' = sent
    BY <1>2 DEF LookAtSpool
  <2> QED BY <2>1, <2>2, <2>3, <1>t DEF AInv, Message
<1>3. ASSUME NEW t \in Threads, PushToSpool(t) PROVE AInv'
  <2>1. \A m : Safe(m) => Safe(m)'
    BY <1>3, <1>t, Pushed DEF PushToSpool, Safe, Held, workerVars, wireVars, spoolerVars
  <2>2. Safe(Current(t))'
    <3>1. Current(t) \in Range(spool') \union gone' /\ Current(t)' = Current(t)
      BY <1>3, <1>t, Pushed DEF PushToSpool, Current
    <3> QED BY <3>1 DEF Safe
  <2> QED BY <1>3, <1>t, <2>1, <2>2, AReturn DEF PushToSpool
<1>4. ASSUME NEW t \in Threads, CallFails(t) \/ DanglingCallFails(t) PROVE AInv'
  <2> USE DEF CallFails, PushFails, SendTransientFails, DanglingCallFails
  <2>1. \A m : Safe(m) => Safe(m)'
    BY <1>4 DEF Safe, Held, spoolVars, workerVars, wireVars, spoolerVars
  <2>2. Safe(Current(t))'
    BY <1>4 DEF Safe, Current
  <2> QED BY <1>4, <1>t, <2>1, <2>2, AReturn
<1>5. ASSUME NEW t \in Threads, SendTransient(t) PROVE AInv'
  <2>1. /\ Range(pipe'[t]) = Range(pipe[t]) \union {Current(t)}
        /\ \A u \in Threads \ {t} : pipe'[u] = pipe[u]
    <3>1. /\ pipe'[t] = Append(pipe[t], Current(t))
          /\ \A u \in Threads \ {t} : pipe'[u] = pipe[u]
      BY <1>5, <1>t DEF SendTransient, TypeOK
    <3> QED BY <3>1, <1>t, CurrentIsMessage, RangeOfAppend
  <2>2. \A m : Safe(m) => Safe(m)'
    BY <1>5, <2>1 DEF SendTransient, Safe, Held, spoolVars, workerVars, wireVars, spoolerVars
  <2>3. Safe(Current(t))'
    BY <1>5, <2>1 DEF SendTransient, Safe, Current
  <2> QED BY <1>5, <1>t, <2>2, <2>3, AReturn DEF SendTransient
<1>6. CASE Wake \/ LeaveLoop \/ PopNothing \/ FreeParts
  <2>1. Held' = Held
    BY <1>6 DEF Wake, LeaveLoop, PopNothing, FreeParts, Held
  <2> QED BY <1>6, <2>1, AKeep
       DEF Wake, LeaveLoop, PopNothing, FreeParts, Safe, spoolVars, workerVars, wireVars, senderVars
<1>7. CASE PopMessage
  <2>1. Range(spool) = {Head(spool)} \union Range(Tail(spool))
    BY <1>7, <1>t, RangeOfTail DEF PopMessage, TypeOK
  <2>2. spool' = Tail(spool) /\ Held' = {Head(spool)} /\ Held = {}
    <3>1. hand' = <<Head(spool)>> /\ spooler' = "send" /\ spooler = "pop" /\ spool' = Tail(spool)
      BY <1>7 DEF PopMessage
    <3>2. Held' = Range(hand')
      BY <3>1 DEF Held
    <3>3. Range(<<Head(spool)>>) = {Head(spool)}
      BY RangeOfOne
    <3>4. Range(hand') = {Head(spool)}
      BY <3>1, <3>3
    <3>5. Held = {}
      BY <3>1 DEF Held
    <3> QED BY <3>1, <3>2, <3>4, <3>5
  <2>3. \A m : Safe(m) => Safe(m)'
    BY <1>7, <2>1, <2>2 DEF PopMessage, Safe, workerVars, wireVars
  <2> QED BY <1>7, <2>3, AKeep DEF PopMessage, senderVars
<1>8. CASE SpoolerSends
  <2>1. \A m : Safe(m) => Safe(m)'
    BY <1>8, <1>t, SpoolerSent DEF SpoolerSends, Safe, spoolVars, workerVars, wireVars
  <2> QED BY <1>8, <2>1, AKeep DEF SpoolerSends, senderVars
<1>9. CASE SpoolerSendFails
  <2>1. \A m : Safe(m) => Safe(m)'
    BY <1>9 DEF SpoolerSendFails, Safe, Held, spoolVars, workerVars, wireVars
  <2> QED BY <1>9, <2>1, AKeep DEF SpoolerSendFails, senderVars
<1>10. CASE WorkerExits
  <2>1. \A m : Safe(m) => Safe(m)'
    BY <1>10 DEF WorkerExits, Safe, Held, spoolVars, wireVars, spoolerVars
  <2> QED BY <1>10, <2>1, AKeep DEF WorkerExits, senderVars
<1>11. CASE CreateSockets \/ Poll \/ NothingToForward \/ NoMonitorEvent \/ (\E st \in ReportedStates : MonitorEvent(st))
  BY <1>11, AKeep
    DEF CreateSockets, Poll, NothingToForward, NoMonitorEvent, MonitorEvent, Safe, Held,
        spoolVars, wireVars, spoolerVars, senderVars
<1>12. ASSUME NEW t \in Threads, ForwardOne(t) PROVE AInv'
  <2>1. /\ Range(pipe[t]) = {Head(pipe[t])} \union Range(Tail(pipe[t])) /\ Head(pipe[t]) \in Messages
    BY <1>12, <1>t, RangeOfTail DEF ForwardOne
  <2>2. Range(forwarded') = Range(forwarded) \union {Head(pipe[t])}
    BY <1>12, <1>t, <2>1, RangeOfAppend DEF ForwardOne, TypeOK
  <2>3. pipe'[t] = Tail(pipe[t]) /\ \A u \in Threads \ {t} : pipe'[u] = pipe[u]
    BY <1>12, <1>t DEF ForwardOne, TypeOK
  <2>4. Held' = Held /\ spool' = spool /\ gone' = gone
    BY <1>12 DEF ForwardOne, Held, spoolVars, spoolerVars
  <2>5. \A m : Safe(m) => Safe(m)'
    BY <2>1, <2>2, <2>3, <2>4 DEF Safe
  <2> QED BY <1>12, <2>5, AKeep DEF ForwardOne, senderVars
<1>13. CASE PeerReads \/ Destruction \/ UNCHANGED vars
  <2>1. /\ UNCHANGED <<pc, sent, pipe, spool, forwarded, gone>> /\ Held' = Held
    BY <1>13, DestructionMovesNothing
       DEF PeerReads, Held, vars, spoolVars, workerVars, wireVars, spoolerVars, senderVars
  <2> QED BY <2>1, AKeep DEF Safe
<1> QED BY <1>1, <1>2, <1>3, <1>4, <1>5, <1>6, <1>7, <1>8, <1>9, <1>10, <1>11, <1>12, <1>13, <1>t
       DEF Destruction, Next, Continue, SpoolMain, SocketWorker, WorkerFails, CreateSocketsFails, EventFails,
           WorkerStops, Ended

(* A message that was given to send_router_message or sent by the heartbeat*)
(* is in the spool, on its way or forwarded, or was dropped for one of the *)
(* reasons of `gone', for any number of senders and any errors.            *)
THEOREM NothingVanishes == Spec => []Accounted
<1>1. Init => AInv
  BY DEF Init, AInv, Threads
<1>2. Spec => [](TInv /\ AInv)
  BY <1>1, TInit, TNext, ANext, PTL DEF Spec
<1>3. TInv /\ AInv => Accounted
  BY AccountedBySafe DEF TInv
<1> QED BY <1>2, <1>3, PTL

-----------------------------------------------------------------------------
(* The order of what was spooled                                           *)

LEMMA OInit == Init => OInv
<1> SUFFICES ASSUME Init PROVE OInv
  OBVIOUS
<1>1. PICK left \in 0 .. MaxLeftover : spool = [i \in 1 .. left |-> Message(Spooler, i)]
  BY DEF Init
<1>2. /\ \A i \in DOMAIN spool : spool[i].from = Spooler /\ spool[i].n = i
      /\ DOMAIN spool = 1 .. left /\ left \in Nat
  BY <1>1, RouterAssumption DEF Message
<1>3. \A m \in spooled : m.from = Spooler
  BY <1>2 DEF Init, Range
<1>4. Sorted(spool)
  BY <1>2 DEF Sorted
<1>5. /\ \A t \in Threads : pipe[t] = << >>
      /\ Held = {} /\ Range(<< >>) = {} /\ spooled = Range(spool) /\ forwarded = << >>
      /\ \A t \in Threads : pc[t] = "idle"
      /\ Spooler \in Threads /\ Spooler # Heartbeat
  BY RangeOfEmpty, RouterAssumption DEF Init, Held, Threads
<1>6. ChainSorted /\ ForwardedFirst /\ PipesFirst
  <2>1. Sorted(<< >>)
    BY DEF Sorted
  <2> QED BY <1>4, <1>5, <2>1 DEF ChainSorted, Chained, Precede, ForwardedFirst, PipesFirst
<1>7. Numbering /\ NothingSpooled
  BY <1>3, <1>5 DEF Numbering, Everywhere, NothingSpooled
<1>8. SpooledNotOvertaken
  BY <1>5 DEF SpooledNotOvertaken
<1> QED BY <1>6, <1>7, <1>8 DEF OInv

(* A step that moves no message, or drops the one in the spool thread's    *)
(* hand, leaves the order.                                                 *)
LEMMA OKeep ==
  ASSUME OInv, UNCHANGED <<pipe, forwarded, spool, spooled, newFiles, sent>>, Held' \subseteq Held,
         \A t \in Threads : pc'[t] \in {pc[t], "idle"}
  PROVE  OInv'
<1>1. ChainSorted' /\ ForwardedFirst' /\ Chained' \subseteq Chained
  BY DEF OInv, ChainSorted, ForwardedFirst, Chained, Precede
<1>2. PipesFirst'
  BY DEF OInv, PipesFirst
<1>3. Numbering'
  BY DEF OInv, Numbering, Everywhere
<1>4. NothingSpooled'
  BY DEF OInv, NothingSpooled
<1>5. SpooledNotOvertaken'
  BY DEF OInv, SpooledNotOvertaken
<1> QED BY <1>1, <1>2, <1>3, <1>4, <1>5 DEF OInv

(* A thread begins to send a message.                                      *)
LEMMA OBegin ==
  ASSUME TypeOK, OInv, NEW s \in Senders \union {Heartbeat},
         UNCHANGED <<pipe, forwarded, spool, spooled, newFiles, spooler, hand>>,
         sent' = [sent EXCEPT ![s] = @ + 1],
         NEW l \in {"look", "push", "send"}, pc' = [pc EXCEPT ![s] = l], l = "send" => s = Heartbeat
  PROVE  OInv'
<1>1. Held' = Held
  BY DEF Held
<1>2. ChainSorted' /\ ForwardedFirst' /\ PipesFirst' /\ SpooledNotOvertaken'
  BY <1>1 DEF OInv, ChainSorted, ForwardedFirst, PipesFirst, Chained, SpooledNotOvertaken
<1>3. /\ \A t \in Threads : sent[t] \in Nat /\ sent'[t] = (IF t = s THEN sent[t] + 1 ELSE sent[t])
      /\ \A t \in Threads : pc'[t] = (IF t = s THEN l ELSE pc[t])
  BY DEF TypeOK
<1>4. Numbering'
  <2> SUFFICES ASSUME NEW t \in Threads \ {Spooler}, NEW m, Everywhere(m), m.from = t
               PROVE  m.n <= sent'[t] /\ (pc'[t] # "idle" => m.n < sent'[t])
    BY DEF Numbering, Everywhere
  <2>1. m.n <= sent[t] /\ (pc[t] # "idle" => m.n < sent[t])
    BY DEF OInv, Numbering
  <2>2. m.n \in Nat
    <3>1. \A u \in Threads : pipe[u] \in Seq(Messages)
      BY DEF TypeOK
    <3>2. Range(forwarded) \subseteq Messages /\ \A u \in Threads : Range(pipe[u]) \subseteq Messages
      BY <3>1, RangeOfSequence DEF TypeOK
    <3>3. m \in Messages
      BY <3>2 DEF Everywhere, TypeOK
    <3> QED BY <3>3 DEF Messages
  <2> QED BY <1>3, <2>1, <2>2
<1>5. NothingSpooled'
  BY <1>3 DEF OInv, NothingSpooled
<1> QED BY <1>2, <1>4, <1>5 DEF OInv

(* A message is pushed to the spool: it is the last of its thread.         *)
LEMMA OPush ==
  ASSUME TInv, OInv, NEW t \in Threads \ {Spooler, Heartbeat}, PushToSpool(t)
  PROVE  OInv'
<1> DEFINE c == Current(t)
<1>t. TypeOK /\ t \in Threads /\ Spooler \in Threads /\ Heartbeat # t
  BY DEF TInv, Threads
<1>1. c \in Messages /\ c.from = t /\ c.n = sent[t]
  BY <1>t, CurrentIsMessage
<1>2. /\ UNCHANGED <<pipe, forwarded, sent>> /\ Held' = Held
      /\ spooled' = spooled \union {c} /\ newFiles'
      /\ \A u \in Threads : pc'[u] = (IF u = t THEN "idle" ELSE pc[u])
  BY <1>t DEF PushToSpool, Goto, TypeOK, Held, workerVars, wireVars, spoolerVars
<1>3. pc[t] = "push"
  BY DEF PushToSpool
<1>4. \A m : Everywhere(m) /\ m.from = t => m.n < c.n
  BY <1>1, <1>3 DEF OInv, Numbering
<1>5. Range(spool') \subseteq Range(spool) \union {c}
  BY <1>t, Pushed
<1>6. Precede(Range(spool), {c}) /\ Sorted(spool')
  <2>1. \A m \in Range(spool) : Everywhere(m)
    BY DEF OInv, ChainSorted, Chained, Everywhere
  <2>2. Precede(Range(spool), {c})
    BY <1>1, <1>4, <2>1 DEF Precede
  <2> QED BY <1>t, <2>2, Pushed DEF OInv, ChainSorted
<1> HIDE DEF c
<1>7. Chained' \subseteq Chained \union {c} /\ Chained \subseteq spooled
  BY <1>2, <1>5 DEF Chained, OInv, ChainSorted
<1>8. \A m : m \in Chained \/ m \in Range(forwarded) => Everywhere(m)
  BY <1>7 DEF Everywhere
<1>9. ChainSorted'
  <2>1. \A m \in Chained : m.from = c.from => m.n < c.n
    BY <1>1, <1>4, <1>8
  <2>2. /\ Precede(Range(pipe[Spooler]), Held \union Range(spool'))
        /\ Precede(Held, Range(spool'))
    BY <1>5, <2>1 DEF Chained, Precede, OInv, ChainSorted
  <2> QED BY <1>2, <1>6, <1>7, <2>2 DEF OInv, ChainSorted
<1>10. ForwardedFirst'
  BY <1>1, <1>2, <1>4, <1>7, <1>8 DEF OInv, ForwardedFirst, Precede
<1>11. PipesFirst'
  BY <1>1, <1>2, <1>4 DEF OInv, PipesFirst, Precede, Everywhere
<1>12. \A m : Everywhere(m)' => Everywhere(m) \/ m = c
  BY <1>2 DEF Everywhere
<1>13. Numbering'
  <2> SUFFICES ASSUME NEW u \in Threads \ {Spooler}, NEW m, Everywhere(m)', m.from = u
               PROVE  m.n <= sent[u] /\ (pc'[u] # "idle" => m.n < sent[u])
    BY <1>2 DEF Numbering
  <2>1. CASE m = c
    BY <1>1, <1>2, <2>1 DEF TInv, TypeOK
  <2>2. CASE m # c
    BY <1>2, <1>12, <2>2 DEF OInv, Numbering
  <2> QED BY <2>1, <2>2
<1>14. NothingSpooled'
  BY <1>1, <1>2, <1>t DEF OInv, NothingSpooled
<1>15. SpooledNotOvertaken'
  <2> SUFFICES ASSUME NEW i \in DOMAIN forwarded, NEW j \in DOMAIN forwarded,
                      i < j, forwarded[i].from = forwarded[j].from, forwarded[j] \in spooled'
               PROVE  forwarded[i].n < forwarded[j].n
    BY <1>2 DEF SpooledNotOvertaken
  <2>1. CASE forwarded[j] = c
    <3>1. Everywhere(forwarded[i])
      BY DEF Everywhere, Range
    <3> QED BY <1>1, <1>4, <2>1, <3>1
  <2>2. CASE forwarded[j] # c
    BY <1>2, <2>2 DEF OInv, SpooledNotOvertaken
  <2> QED BY <2>1, <2>2
<1> QED BY <1>9, <1>10, <1>11, <1>13, <1>14, <1>15 DEF OInv

(* A message goes around the spool: nothing of its thread was spooled.     *)
LEMMA OSend ==
  ASSUME TInv, OInv, NEW t \in Threads \ {Spooler}, SendTransient(t)
  PROVE  OInv'
<1> DEFINE c == Current(t)
<1>t. TypeOK /\ t \in Threads /\ Spooler \in Threads
  BY DEF TInv, Threads
<1>1. c \in Messages /\ c.from = t /\ c.n = sent[t]
  BY <1>t, CurrentIsMessage
<1>2. /\ UNCHANGED <<forwarded, sent, spool, spooled, newFiles>> /\ Held' = Held
      /\ \A u \in Threads : pc'[u] = (IF u = t THEN "idle" ELSE pc[u])
      /\ pc[t] = "send"
  BY <1>t DEF SendTransient, Goto, TypeOK, Held, workerVars, wireVars, spoolerVars, spoolVars
<1>3. /\ Range(pipe'[t]) = Range(pipe[t]) \union {c}
      /\ \A u \in Threads \ {t} : pipe'[u] = pipe[u]
  <2>1. /\ pipe'[t] = Append(pipe[t], c) /\ pipe[t] \in Seq(Messages)
        /\ \A u \in Threads \ {t} : pipe'[u] = pipe[u]
    BY <1>t DEF SendTransient, TypeOK
  <2> QED BY <1>1, <2>1, RangeOfAppend
<1> HIDE DEF c
<1>4. \A m \in spooled : m.from # t
  BY <1>2, <1>t DEF OInv, NothingSpooled
<1>5. ChainSorted' /\ ForwardedFirst'
  BY <1>2, <1>3, <1>t DEF OInv, ChainSorted, ForwardedFirst, Chained
<1>6. PipesFirst'
  BY <1>1, <1>2, <1>3, <1>4 DEF OInv, PipesFirst, Precede
<1>7. \A m : Everywhere(m)' => Everywhere(m) \/ m = c
  BY <1>2, <1>3 DEF Everywhere
<1>8. Numbering'
  <2> SUFFICES ASSUME NEW u \in Threads \ {Spooler}, NEW m, Everywhere(m)', m.from = u
               PROVE  m.n <= sent[u] /\ (pc'[u] # "idle" => m.n < sent[u])
    BY <1>2 DEF Numbering
  <2>1. CASE m = c
    BY <1>1, <1>2, <2>1 DEF TInv, TypeOK
  <2>2. CASE m # c
    BY <1>2, <1>7, <2>2 DEF OInv, Numbering
  <2> QED BY <2>1, <2>2
<1>9. NothingSpooled' /\ SpooledNotOvertaken'
  BY <1>2 DEF OInv, NothingSpooled, SpooledNotOvertaken
<1> QED BY <1>5, <1>6, <1>8, <1>9 DEF OInv

(* A thread has looked at the spool.                                       *)
LEMMA OLook ==
  ASSUME TInv, OInv, NEW t \in Threads, LookAtSpool(t)
  PROVE  OInv'
<1>1. /\ UNCHANGED <<pipe, forwarded, spool, spooled, newFiles, sent>> /\ Held' = Held
      /\ \A u \in Threads : u # t => pc'[u] = pc[u]
      /\ pc[t] = "look" /\ pc'[t] \in {"send", "push"} /\ (pc'[t] = "send" => ~ newFiles)
  BY DEF LookAtSpool, Goto, SpoolEmpty, TInv, TypeOK, Held, spoolVars, workerVars, wireVars, spoolerVars
<1>2. t # Spooler
  BY <1>1 DEF TInv, Shape
<1>3. ChainSorted' /\ ForwardedFirst' /\ PipesFirst' /\ SpooledNotOvertaken'
  BY <1>1 DEF OInv, ChainSorted, ForwardedFirst, PipesFirst, Chained, SpooledNotOvertaken
<1>4. Numbering'
  BY <1>1 DEF OInv, Numbering, Everywhere
<1>5. NothingSpooled'
  BY <1>1, <1>2 DEF OInv, NothingSpooled
<1> QED BY <1>3, <1>4, <1>5 DEF OInv

(* The spool thread takes the first message of the spool.                  *)
LEMMA OPop ==
  ASSUME TInv, OInv, PopMessage
  PROVE  OInv'
<1> DEFINE m == Head(spool)
<1>1. /\ Tail(spool) \in Seq(Messages) /\ Range(spool) = {m} \union Range(Tail(spool))
      /\ Sorted(Tail(spool)) /\ Precede({m}, Range(Tail(spool)))
  BY RangeOfTail, SortedTail DEF PopMessage, TInv, TypeOK, OInv, ChainSorted
<1>2. /\ UNCHANGED <<pipe, forwarded, spooled, newFiles, sent, pc>>
      /\ spool' = Tail(spool) /\ hand' = <<m>> /\ spooler' = "send" /\ spooler = "pop"
  BY DEF PopMessage, workerVars, wireVars, senderVars
<1> HIDE DEF m
<1>3. Held = {} /\ Held' = {m}
  BY <1>2, RangeOfOne DEF Held
<1>4. Chained' = Chained
  BY <1>1, <1>2, <1>3 DEF Chained
<1>5. ChainSorted'
  BY <1>1, <1>2, <1>3, <1>4 DEF OInv, ChainSorted, Precede
<1>6. ForwardedFirst' /\ PipesFirst' /\ NothingSpooled' /\ SpooledNotOvertaken'
  BY <1>2, <1>4 DEF OInv, ForwardedFirst, PipesFirst, NothingSpooled, SpooledNotOvertaken
<1>7. Numbering'
  BY <1>2 DEF OInv, Numbering, Everywhere
<1> QED BY <1>5, <1>6, <1>7 DEF OInv

(* It sends it into its pipe.                                              *)
LEMMA OSpoolerSends ==
  ASSUME TInv, OInv, SpoolerSends
  PROVE  OInv'
<1>1. /\ UNCHANGED <<forwarded, spool, spooled, newFiles, sent, pc>> /\ Spooler \in Threads
      /\ Range(pipe'[Spooler]) = Range(pipe[Spooler]) \union Held /\ Held' = {}
      /\ \A t \in Threads \ {Spooler} : pipe'[t] = pipe[t]
  BY SpoolerSent DEF SpoolerSends, spoolVars, workerVars, wireVars, senderVars, Threads
<1>2. Sorted(pipe'[Spooler])
  <2>1. Sorted(pipe[Spooler]) /\ Precede(Range(pipe[Spooler]), Held)
    BY DEF OInv, ChainSorted, Precede
  <2> QED BY <2>1, SpoolerSent
<1>3. Chained' = Chained
  BY <1>1 DEF Chained
<1>4. ChainSorted'
  BY <1>1, <1>2, <1>3 DEF OInv, ChainSorted, Precede
<1>5. ForwardedFirst' /\ PipesFirst' /\ NothingSpooled' /\ SpooledNotOvertaken'
  BY <1>1, <1>3 DEF OInv, ForwardedFirst, PipesFirst, NothingSpooled, SpooledNotOvertaken
<1>6. \A m : Everywhere(m)' => Everywhere(m)
  BY <1>1 DEF Everywhere, OInv, ChainSorted, Chained
<1>7. Numbering'
  BY <1>1, <1>6 DEF OInv, Numbering
<1> QED BY <1>4, <1>5, <1>7 DEF OInv

(* The worker closes the pipes.                                            *)
LEMMA OExits ==
  ASSUME OInv, WorkerExits
  PROVE  OInv'
<1>1. /\ UNCHANGED <<forwarded, spool, spooled, newFiles, sent, pc>> /\ Held' = Held
      /\ \A t \in Threads : pipe'[t] = << >> /\ Range(pipe'[t]) = {}
      /\ Spooler \in Threads
  BY RangeOfEmpty DEF WorkerExits, Held, spoolVars, wireVars, spoolerVars, senderVars, Threads
<1>2. ChainSorted' /\ Chained' \subseteq Chained
  <2>1. Sorted(<< >>)
    BY DEF Sorted
  <2> QED BY <1>1, <2>1 DEF OInv, ChainSorted, Chained, Precede
<1>3. ForwardedFirst' /\ PipesFirst' /\ NothingSpooled' /\ SpooledNotOvertaken'
  BY <1>1, <1>2 DEF OInv, ForwardedFirst, PipesFirst, NothingSpooled, SpooledNotOvertaken, Precede
<1>4. Numbering'
  BY <1>1 DEF OInv, Numbering, Everywhere
<1> QED BY <1>2, <1>3, <1>4 DEF OInv

(* The worker forwards a message: one that was spooled comes from the spool*)
(* thread's pipe, and what was forwarded is earlier.                       *)
LEMMA OForward ==
  ASSUME TInv, OInv, NEW t \in Threads, ForwardOne(t)
  PROVE  OInv'
<1> DEFINE m == Head(pipe[t])
<1>1. pipe[t] \in Seq(Messages) /\ pipe[t] # << >> /\ forwarded \in Seq(Messages)
  BY DEF TInv, TypeOK, ForwardOne
<1>2. Tail(pipe[t]) \in Seq(Messages) /\ m \in Messages /\ Range(pipe[t]) = {m} \union Range(Tail(pipe[t]))
  BY <1>1, RangeOfTail
<1>3. /\ UNCHANGED <<spool, spooled, newFiles, sent, pc>> /\ Held' = Held
      /\ pipe'[t] = Tail(pipe[t]) /\ \A u \in Threads \ {t} : pipe'[u] = pipe[u]
      /\ forwarded' = Append(forwarded, m)
  BY DEF ForwardOne, TInv, TypeOK, Held, spoolVars, spoolerVars, senderVars
<1>4. Sorted(pipe[t]) => Sorted(Tail(pipe[t])) /\ Precede({m}, Range(Tail(pipe[t])))
  BY <1>1, SortedTail
<1> HIDE DEF m
<1>5. Range(forwarded') = Range(forwarded) \union {m}
  BY <1>1, <1>2, <1>3, RangeOfAppend
<1>6. t # Spooler => m \notin spooled
  <2>1. SUFFICES ASSUME t # Spooler, m \in spooled PROVE FALSE
    OBVIOUS
  <2>2. m.n < m.n
    BY <1>2, <2>1 DEF OInv, PipesFirst, Precede
  <2>3. m.n \in Nat
    BY <1>2 DEF Messages
  <2> QED BY <2>2, <2>3
<1>7. Spooler \in Threads
  BY DEF Threads
<1>8. ChainSorted' /\ ForwardedFirst'
  <2>1. CASE t = Spooler
    <3>1. Chained' \subseteq Chained /\ Precede({m}, Chained')
      BY <1>2, <1>3, <1>4, <2>1 DEF Chained, OInv, ChainSorted, Precede
    <3>2. ChainSorted'
      BY <1>2, <1>3, <1>4, <2>1, <3>1 DEF OInv, ChainSorted, Precede
    <3> QED BY <1>5, <3>1, <3>2 DEF OInv, ForwardedFirst, Precede
  <2>2. CASE t # Spooler
    <3>1. Chained' = Chained /\ pipe'[Spooler] = pipe[Spooler]
      BY <1>3, <1>7, <2>2 DEF Chained
    <3>2. Precede({m}, Chained)
      BY <1>2, <2>2 DEF OInv, PipesFirst, ChainSorted, Precede
    <3>3. ChainSorted'
      BY <1>3, <3>1 DEF OInv, ChainSorted
    <3> QED BY <1>5, <3>1, <3>2, <3>3 DEF OInv, ForwardedFirst, Precede
  <2> QED BY <2>1, <2>2
<1>9. PipesFirst'
  <2>1. \A u \in Threads : Range(pipe'[u]) \subseteq Range(pipe[u])
    BY <1>2, <1>3
  <2> QED BY <1>3, <2>1 DEF OInv, PipesFirst, Precede
<1>10. NothingSpooled'
  BY <1>3 DEF OInv, NothingSpooled
<1>11. Numbering'
  <2>1. \A u \in Threads : Range(pipe'[u]) \subseteq Range(pipe[u])
    BY <1>2, <1>3
  <2>2. \A x : Everywhere(x)' => Everywhere(x)
    BY <1>2, <1>3, <1>5, <2>1 DEF Everywhere
  <2> QED BY <1>3, <2>2 DEF OInv, Numbering
<1>12. SpooledNotOvertaken'
  <2>1. /\ Len(forwarded') = Len(forwarded) + 1 /\ DOMAIN forwarded' = 1 .. Len(forwarded) + 1
        /\ \A i \in 1 .. Len(forwarded) : forwarded'[i] = forwarded[i]
        /\ forwarded'[Len(forwarded) + 1] = m
        /\ DOMAIN forwarded = 1 .. Len(forwarded) /\ Len(forwarded) \in Nat
    BY <1>1, <1>2, <1>3
  <2> SUFFICES ASSUME NEW i \in 1 .. Len(forwarded) + 1, NEW j \in 1 .. Len(forwarded) + 1,
                      i < j, forwarded'[i].from = forwarded'[j].from, forwarded'[j] \in spooled
               PROVE  forwarded'[i].n < forwarded'[j].n
    BY <1>3, <2>1 DEF SpooledNotOvertaken
  <2>2. i \in 1 .. Len(forwarded) /\ forwarded'[i] = forwarded[i] /\ forwarded[i] \in Range(forwarded)
    BY <2>1 DEF Range
  <2>3. CASE j = Len(forwarded) + 1
    <3>1. forwarded'[j] = m /\ t = Spooler
      BY <1>6, <2>1, <2>3
    <3>2. m \in Chained
      BY <1>2, <3>1 DEF Chained
    <3> QED BY <2>2, <3>1, <3>2 DEF OInv, ForwardedFirst, Precede
  <2>4. CASE j \in 1 .. Len(forwarded)
    BY <2>1, <2>2, <2>4 DEF OInv, SpooledNotOvertaken
  <2> QED BY <2>1, <2>3, <2>4
<1> QED BY <1>8, <1>9, <1>10, <1>11, <1>12 DEF OInv

(* A step leaves what was spooled in order.                                *)
LEMMA ONext == TInv /\ OInv /\ [Next]_vars => OInv'
<1> SUFFICES ASSUME TInv, OInv, [Next]_vars PROVE OInv'
  OBVIOUS
<1>t. /\ TypeOK /\ Spooler \in Threads /\ Heartbeat \in Threads /\ Senders \subseteq Threads
      /\ pc[Spooler] = "idle" /\ pc[Heartbeat] \in {"idle", "send"}
  BY DEF TInv, Shape, Threads
<1>1. ASSUME NEW s \in Senders, ReadState(s) PROVE OInv'
  BY <1>1, <1>t, OBegin DEF ReadState, Goto, spoolVars, workerVars, wireVars, spoolerVars
<1>2. CASE Beat
  BY <1>2, <1>t, OBegin DEF Beat, Goto, spoolVars, workerVars, wireVars, spoolerVars
<1>3. ASSUME NEW t \in Threads, LookAtSpool(t) PROVE OInv'
  BY <1>3, OLook
<1>4. ASSUME NEW t \in Threads, PushToSpool(t) PROVE OInv'
  <2>1. t # Spooler /\ t # Heartbeat
    BY <1>4, <1>t DEF PushToSpool
  <2> QED BY <1>4, <2>1, OPush
<1>5. ASSUME NEW t \in Threads, CallFails(t) \/ DanglingCallFails(t) PROVE OInv'
  <2> USE DEF CallFails, PushFails, SendTransientFails, DanglingCallFails
  <2>1. \A u \in Threads : pc'[u] \in {pc[u], "idle"}
    BY <1>5, <1>t DEF Goto, TypeOK
  <2> QED BY <1>5, <2>1, OKeep DEF Held, spoolVars, workerVars, wireVars, spoolerVars
<1>6. ASSUME NEW t \in Threads, SendTransient(t) PROVE OInv'
  <2>1. t # Spooler
    BY <1>6, <1>t DEF SendTransient
  <2> QED BY <1>6, <2>1, OSend
<1>7. CASE Wake \/ LeaveLoop \/ PopNothing \/ FreeParts \/ SpoolerSendFails
  <2>1. Held' \subseteq Held
    BY <1>7 DEF Wake, LeaveLoop, PopNothing, FreeParts, SpoolerSendFails, Held
  <2> QED BY <1>7, <2>1, OKeep
       DEF Wake, LeaveLoop, PopNothing, FreeParts, SpoolerSendFails, spoolVars, workerVars, wireVars, senderVars
<1>8. CASE PopMessage
  BY <1>8, OPop
<1>9. CASE SpoolerSends
  BY <1>9, OSpoolerSends
<1>10. CASE WorkerExits
  BY <1>10, OExits
<1>11. CASE CreateSockets \/ Poll \/ NothingToForward \/ NoMonitorEvent \/ (\E st \in ReportedStates : MonitorEvent(st))
  BY <1>11, OKeep
    DEF CreateSockets, Poll, NothingToForward, NoMonitorEvent, MonitorEvent, Held,
        spoolVars, wireVars, spoolerVars, senderVars
<1>12. ASSUME NEW t \in Threads, ForwardOne(t) PROVE OInv'
  BY <1>12, OForward
<1>13. CASE PeerReads \/ Destruction \/ UNCHANGED vars
  <2>1. /\ UNCHANGED <<pc, sent, pipe, spool, spooled, newFiles, forwarded>> /\ Held' = Held
    BY <1>13, DestructionMovesNothing
       DEF PeerReads, Held, vars, spoolVars, workerVars, wireVars, spoolerVars, senderVars
  <2> QED BY <2>1, OKeep
<1> QED BY <1>1, <1>2, <1>3, <1>4, <1>5, <1>6, <1>7, <1>8, <1>9, <1>10, <1>11, <1>12, <1>13, <1>t
       DEF Destruction, Next, Continue, SpoolMain, SocketWorker, WorkerFails, CreateSocketsFails, EventFails,
           WorkerStops, Ended

(* A message that was spooled is forwarded after all the earlier ones of   *)
(* its thread that are forwarded, though these may have gone around the    *)
(* spool, for any number of senders, any limits and any errors.            *)
THEOREM SpooledKeepTheirOrder == Spec => []SpooledNotOvertaken
<1>1. Spec => [](TInv /\ OInv)
  BY TInit, OInit, TNext, ONext, PTL DEF Spec
<1>2. OInv => SpooledNotOvertaken
  BY DEF OInv
<1> QED BY <1>1, <1>2, PTL

===============================================================================
