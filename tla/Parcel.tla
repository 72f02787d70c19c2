--------------------------------- MODULE Parcel ---------------------------------
(***************************************************************************)
(* The parcels the agent and the router exchange, common/parcel.c: what is *)
(* left of one that is packed into a flat buffer and unpacked again.       *)
(*                                                                         *)
(* A parcel is a record with the fields of yella_parcel, a flat buffer a   *)
(* function from the fields that are present to their values; Null is what *)
(* is not there.                                                           *)
(***************************************************************************)
EXTENDS Naturals, Sequences
LOCAL INSTANCE Functions

CONSTANT Null

Required == {"sender", "recipient", "type", "seq"}

(* yella_pack_parcel: the time is cut to seconds.  A sender or a type there*)
(* always is.                                                              *)
PackParcel(pcl) ==
  LET fields == [time |-> pcl.time \div 1000, sender |-> pcl.sender, recipient |-> pcl.recipient,
                 type |-> pcl.type, cmp |-> IF pcl.cmp = "LZ4" THEN "LZ4" ELSE "NONE",
                 seq |-> [major |-> pcl.seq.major, minor |-> pcl.seq.minor],
                 grp |-> IF pcl.grp = Null THEN Null
                         ELSE [id |-> pcl.grp.identifier,
                               disposition |-> IF pcl.grp.disposition = "MORE" THEN "MORE" ELSE "END"],
                 payload |-> IF pcl.payload = << >> THEN Null ELSE pcl.payload]
  IN  Restrict(fields, {f \in DOMAIN fields : fields[f] # Null})

(* yella_unpack_parcel                                                     *)
UnpackParcel(tbl) ==
  LET Present(f) == f \in DOMAIN tbl
  IN  IF ~ (Required \subseteq DOMAIN tbl) THEN Null
      ELSE [time |-> (IF Present("time") THEN tbl["time"] ELSE 0) * 1000,
            sender |-> tbl["sender"], recipient |-> tbl["recipient"], type |-> tbl["type"],
            cmp |-> IF Present("cmp") /\ tbl["cmp"] = "LZ4" THEN "LZ4" ELSE "NONE",
            seq |-> tbl["seq"],
            grp |-> IF Present("grp")
                    THEN [identifier |-> tbl["grp"].id,
                          disposition |-> IF tbl["grp"].disposition = "MORE" THEN "MORE" ELSE "END"]
                    ELSE Null,
            payload |-> IF Present("payload") THEN tbl["payload"] ELSE << >>]

================================================================================
