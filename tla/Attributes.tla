------------------------------ MODULE Attributes ------------------------------
(***************************************************************************)
(* The attributes of a file (plugin/file/attribute.c): what is collected   *)
(* of them, how they are compared, and what is left of them when they are  *)
(* packed into a row of the state database and unpacked again.  An         *)
(* element's attributes (plugin/file/element.c) are a function of their    *)
(* types.                                                                  *)
(*                                                                         *)
(* A file's content on the disk is a record:                               *)
(*   ftype, size, uid, gid, atime, ctime, mtime  what lstat says of it     *)
(*   mode      the permissions, pairs of a class and a bit, or of "flag"   *)
(*             and a flag                                                  *)
(*   hash      what the hash of the data tells apart                       *)
(*   readable  it can be opened                                            *)
(*   acl       the entries of the access control list, << >> if it cannot  *)
(*             be got                                                      *)
(*   dangling  it is a symbolic link to nothing                            *)
(***************************************************************************)
EXTENDS Integers, Sequences, FiniteSets

CONSTANTS
  IntValues,  (* how many an int has: sizes and times have twice the bits  *)
  Names,      (* the names of the users and groups by their ids            *)
  NoName,     (* the empty name of the others                              *)
  Undefined   (* what a NULL pointer points to                             *)

ASSUME AttributesAssumption == IntValues \in Nat \ {0}

(* The types, and the kinds of files, in the order of their enumerations.  *)
AttrTypes ==
  <<"FILE_TYPE", "SHA256", "POSIX_PERMISSIONS", "USER", "GROUP", "SIZE", "ACCESS_TIME",
    "METADATA_CHANGE_TIME", "MODIFICATION_TIME", "POSIX_ACL">>

FileTypes ==
  <<"BLOCK_SPECIAL", "CHARACTER_SPECIAL", "DIRECTORY", "FIFO", "SYMBOLIC_LINK", "REGULAR",
    "SOCKET", "WHITEOUT">>

Classes == {"owner", "group", "other"}
Flags == {"set_uid", "set_gid", "sticky"}

(* The entries of an access control list in the order they are sorted.     *)
AclTags == <<"USER", "GROUP", "MASK", "USER_OBJ", "GROUP_OBJ", "OTHER">>

Wide == IntValues * IntValues
Numbers == {"SIZE", "ACCESS_TIME", "METADATA_CHANGE_TIME", "MODIFICATION_TIME"}

(* What the calls that look at a file may say of it.  (A list that can be  *)
(* got has entries of the owner, the group and the others: POSIX.1e.)      *)
IsContent(f) ==
  /\ DOMAIN f = {"ftype", "size", "uid", "gid", "atime", "ctime", "mtime", "mode", "hash",
                 "readable", "acl", "dangling"}
  /\ f.ftype \in {FileTypes[i] : i \in DOMAIN FileTypes}
  /\ {f.size, f.atime, f.ctime, f.mtime} \subseteq 0 .. Wide - 1
  /\ f.acl \in Seq({f.acl[i] : i \in DOMAIN f.acl})
  /\ \A i \in DOMAIN f.acl : f.acl[i].tag \in {AclTags[j] : j \in DOMAIN AclTags} /\ f.acl[i].id \in Nat
  /\ f.acl # << >> => \E i \in DOMAIN f.acl : f.acl[i].tag \notin {"USER", "GROUP"}

-----------------------------------------------------------------------------
(* Collecting                                                              *)

NameOf(id) == IF id \in DOMAIN Names THEN Names[id] ELSE NoName
UserGroup(id) == [id |-> id, name |-> NameOf(id)]

Permissions(mode) ==
  [class |-> [c \in Classes |-> {b \in {"read", "write", "execute"} : <<c, b>> \in mode}],
   flags |-> {f \in Flags : <<"flag", f>> \in mode}]

(* Only the entries of named users and groups have a name, the others' is  *)
(* a NULL pointer.                                                         *)
AclEntry(e) ==
  [type |-> e.tag,
   usr_grp |-> IF e.tag \in {"USER", "GROUP"} THEN UserGroup(e.id)
                                              ELSE [id |-> 0, name |-> Undefined],
   perm |-> e.perm]

Rank(e) == CHOOSE i \in DOMAIN AclTags : AclTags[i] = e.tag

(* get_posix_acl: sorted by tag, then by id.                               *)
ComesFirst(acl, i, j) ==
  \/ Rank(acl[i]) < Rank(acl[j])
  \/ Rank(acl[i]) = Rank(acl[j]) /\ acl[i].id < acl[j].id
  \/ Rank(acl[i]) = Rank(acl[j]) /\ acl[i].id = acl[j].id /\ i < j

PlaceOf(acl, i) == Cardinality({j \in DOMAIN acl : j = i \/ ComesFirst(acl, j, i)})

Acl(acl) ==
  [n \in DOMAIN acl |-> AclEntry(acl[CHOOSE i \in DOMAIN acl : PlaceOf(acl, i) = n])]

(* The types that are collected: there is no hash of what cannot be read.  *)
(* (O_NOFOLLOW refuses to open a link.)                                    *)
Collectable(f, types) ==
  {t \in types : /\ t = "SHA256" => f.ftype = "REGULAR" /\ f.readable
                 /\ t = "POSIX_ACL" => f.acl # << >>}

AttributeOf(f, t) ==
  IF t = "FILE_TYPE" THEN f.ftype
  ELSE IF t = "SHA256" THEN f.hash
  ELSE IF t = "POSIX_PERMISSIONS" THEN Permissions(f.mode)
  ELSE IF t = "USER" THEN UserGroup(f.uid)
  ELSE IF t = "GROUP" THEN UserGroup(f.gid)
  ELSE IF t = "SIZE" THEN f.size
  ELSE IF t = "ACCESS_TIME" THEN f.atime
  ELSE IF t = "METADATA_CHANGE_TIME" THEN f.ctime
  ELSE IF t = "MODIFICATION_TIME" THEN f.mtime
  ELSE Acl(f.acl)

(* Slip: what is zero is not collected.                                    *)
CollectSet(f, types) ==
  [t \in {u \in Collectable(f, types) : u \in Numbers => AttributeOf(f, u) # 0} |-> AttributeOf(f, t)]

(* collect_attributes                                                      *)
CollectAttributes(f, types) == [t \in Collectable(f, types) |-> AttributeOf(f, t)]

(* What hashing does to the file: reset_access_time gives it back the time *)
(* of the last access, which is a change of its metadata.                  *)
AfterCollecting(f, types) ==
  IF "SHA256" \in Collectable(f, types) THEN [f EXCEPT !.ctime = (@ + 1) % Wide] ELSE f

-----------------------------------------------------------------------------
(* Comparing                                                               *)

(* The difference of two numbers, as an int, is zero.                      *)
ZeroAsInt(l, r) == (l - r) % IntValues = 0

(* compare_attributes returns zero.  The loop over the entries of a list   *)
(* goes on after a difference: the last entries decide.  (Identifiers of   *)
(* users and groups have the width of an int.)                             *)
Same(t, l, r) ==
  IF t \in Numbers THEN ZeroAsInt(l, r)
  ELSE IF t = "POSIX_ACL" THEN Len(l) = Len(r) /\ (l # << >> => l[Len(l)] = r[Len(r)])
  ELSE l = r

(* Slip: the number of attributes is not compared.                         *)
SameInCommon(l, r) == \A t \in DOMAIN l \intersect DOMAIN r : Same(t, l[t], r[t])

(* compare_element_attributes returns zero: as many attributes, and each   *)
(* of the same type and value.                                             *)
SameElement(l, r) == DOMAIN l = DOMAIN r /\ \A t \in DOMAIN l : Same(t, l[t], r[t])

(* Slip: what the first element has alone is left out.                     *)
DifferentInBoth(l, r) == {t \in DOMAIN l \intersect DOMAIN r : ~ Same(t, l[t], r[t])}

(* diff_elements: what is left of the first element is what it has alone,  *)
(* and what is not the same as in the other.                               *)
Differences(l, r) == {t \in DOMAIN l : t \notin DOMAIN r \/ ~ Same(t, l[t], r[t])}

(* What only the other has is put into the list of both.                   *)
Shared(l, r) == DOMAIN r \ DOMAIN l

-----------------------------------------------------------------------------
(* Packing                                                                 *)

AttributeTypeToFb(t) == CHOOSE n \in DOMAIN AttrTypes : AttrTypes[n] = t
FbToAttributeType(n) == AttrTypes[n]

FileTypeToFb(ft) == CHOOSE i \in DOMAIN FileTypes : FileTypes[i] = ft
FbToFileType(fb) == FileTypes[fb]

(* The name and the identifier are in a table of their own, that entries   *)
(* of other tags than USER and GROUP do not have.                          *)
PackAclEntry(e) ==
  [type |-> e.type, table |-> IF e.type \in {"USER", "GROUP"} THEN e.usr_grp ELSE Undefined,
   permission |-> e.perm]

(* pack_attribute: a class without a permission, and an empty list, leave  *)
(* nothing behind.                                                         *)
PackAttribute(t, v) ==
  IF t = "FILE_TYPE" THEN FileTypeToFb(v)
  ELSE IF t = "POSIX_PERMISSIONS"
    THEN [classes |-> [c \in {d \in Classes : v.class[d] # {}} |-> v.class[c]], flags |-> v.flags]
  ELSE IF t = "POSIX_ACL" THEN [i \in DOMAIN v |-> PackAclEntry(v[i])]
  ELSE v

(* Every tag but USER is taken for GROUP, and the table is read in any case*)
CreateAclEntry(e) ==
  [type |-> IF e.type = "USER" THEN "USER" ELSE "GROUP", usr_grp |-> e.table, perm |-> e.permission]

(* create_attribute_from_table                                             *)
CreateAttributeFromTable(t, v) ==
  IF t = "FILE_TYPE" THEN FbToFileType(v)
  ELSE IF t = "POSIX_PERMISSIONS"
    THEN [class |-> [c \in Classes |-> IF c \in DOMAIN v.classes THEN v.classes[c] ELSE {}],
          flags |-> v.flags]
  ELSE IF t = "POSIX_ACL" THEN [i \in DOMAIN v |-> CreateAclEntry(v[i])]
  ELSE v

(* pack_element_attributes and create_element_with_attrs                   *)
Pack(e) ==
  [n \in {AttributeTypeToFb(t) : t \in DOMAIN e} |->
     PackAttribute(FbToAttributeType(n), e[FbToAttributeType(n)])]

Unpack(row) ==
  [t \in {FbToAttributeType(n) : n \in DOMAIN row} |->
     CreateAttributeFromTable(t, row[AttributeTypeToFb(t)])]

(* Unpacking reads a table that is not there.                              *)
ReadsNothing(row) ==
  \E n \in DOMAIN row :
    FbToAttributeType(n) = "POSIX_ACL" /\ \E i \in DOMAIN row[n] : row[n][i].table = Undefined

(* What compare_attributes tells apart of a row.                           *)
Visible(row) ==
  [n \in DOMAIN row |->
     IF FbToAttributeType(n) \in Numbers THEN row[n] % IntValues ELSE row[n]]

================================================================================
