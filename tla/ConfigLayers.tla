---------------------------- MODULE ConfigLayers ----------------------------
(***************************************************************************)
(* The configuration as a chain of JSON layers (mcp_proxy/layers.py): the  *)
(* merge of RFC 7386, what of a local layer a base already says, and       *)
(* --migrate-config, which rewrites the local layer without it while the   *)
(* machine may stop at any moment.                                         *)
(*                                                                         *)
(* A JSON value is a scalar, null, or an object over a few keys, nested as *)
(* deep as Depth; lists behave as scalars in all of this, and comments are *)
(* scalars.                                                                *)
(***************************************************************************)
EXTENDS Naturals

CONSTANTS
  Keys,       \* names of keys
  Comment,    \* the key of that set which is a comment (_comment*)
  Scalars,    \* values of keys
  NullValue,  \* none of them
  Depth       \* BOUND: nesting of objects

ASSUME LayersAssumption == NullValue \notin Scalars /\ Depth \in Nat

Null    == [kind |-> "leaf", is |-> NullValue]
Leaf(s) == [kind |-> "leaf", is |-> s]
Obj(f)  == [kind |-> "dict", fields |-> f]
IsDict(v) == v.kind = "dict"
KeysOf(v) == DOMAIN v.fields

Comments == {Leaf(s) : s \in Scalars}

(* The objects whose keys have values of V. *)
ObjectsOf(V) ==
  {Obj(f) : f \in {g \in UNION {[K -> V] : K \in SUBSET Keys} :
                      Comment \in DOMAIN g => g[Comment] \in Comments}}

Json[d \in Nat] ==
  {Null} \cup {Leaf(s) : s \in Scalars} \cup (IF d = 0 THEN {} ELSE ObjectsOf(Json[d - 1]))

Values == Json[Depth]

(* A layer is an object (read_layer refuses anything else). *)
Layers == {v \in Values : IsDict(v)}

-----------------------------------------------------------------------------
FieldsOf(v) == IF IsDict(v) THEN v.fields ELSE [k \in {} |-> Null]
At(f, k)    == IF k \in DOMAIN f THEN f[k] ELSE Null

(* merge_patch(), and what follows it: functions of the value they recurse  *)
(* on, which give a function of the other one.                              *)
MergePatch[patch \in Values] ==
  [target \in Values |->
     IF ~IsDict(patch) THEN patch
     ELSE LET old     == FieldsOf(target)
              removed == {k \in KeysOf(patch) : patch.fields[k] = Null}
              written == KeysOf(patch) \ removed
          IN Obj([k \in (DOMAIN old \ removed) \cup written |->
                    IF k \in written THEN MergePatch[patch.fields[k]][At(old, k)]
                    ELSE old[k]])]

StripComments[v \in Values] ==
  IF ~IsDict(v) THEN v
  ELSE Obj([k \in KeysOf(v) \ {Comment} |-> StripComments[v.fields[k]]])

(* Mutant of Redundant: a null that the base has no use for is dropped with *)
(* the nulls that take something away from it.                              *)
RedundantNull(base, v) == StripComments[v] \in {StripComments[base], Null}

(* A value that is not an object on both sides, and says what the base says. *)
Redundant(base, v) == StripComments[v] = StripComments[base]

(* _slim(): what is left of `local` over `base`. *)
Slim[local \in Layers] ==
  [base \in Layers |->
     LET Both(k)   == k \in KeysOf(base) /\ IsDict(base.fields[k]) /\ IsDict(local.fields[k])
         Nested(k) == Slim[local.fields[k]][base.fields[k]]
         Said(k)   == IF Both(k) THEN KeysOf(Nested(k)) = {}
                      ELSE k \in KeysOf(base) /\ Redundant(base.fields[k], local.fields[k])
     IN Obj([k \in {h \in KeysOf(local) \ {Comment} : ~Said(h)} |->
               IF Both(k) THEN Nested(k) ELSE StripComments[local.fields[k]]])]

Effective(base, local) == StripComments[MergePatch[local][base]]

-----------------------------------------------------------------------------
VARIABLES
  below,      \* the merge of the layers before the local one
  original,   \* the local layer, as its owner wrote it
  config,     \* config.json: a layer, or "cut" while it is being written
  backup,     \* config.json.bak: "none", "cut", or a layer
  tmp,        \* config.json.tmp: "none", "cut", or a layer
  migration   \* where --migrate-config is

layerVars == <<below, original, config, backup, tmp, migration>>

Empty == Obj([k \in {} |-> Null])
File(v) == [cut |-> FALSE, holds |-> v]
Cut  == [cut |-> TRUE, holds |-> Empty]
None == [cut |-> TRUE, holds |-> Null]      \* no file

LayersInit ==
  /\ below = Empty /\ original = Empty
  /\ config = File(Empty) /\ backup = None /\ tmp = None
  /\ migration = "unwritten"

(* The layers are written: the base is a merge, and holds no null. *)
Write ==
  /\ migration = "unwritten"
  /\ \E b \in Layers : below' = MergePatch[b][Empty]
  /\ \E l \in Layers : original' = l /\ config' = File(l)
  /\ migration' = "idle"
  /\ UNCHANGED <<backup, tmp>>

(* Refused if a backup is there; else the backup is begun. *)
Migrate ==
  /\ migration = "idle"
  /\ IF backup # None
     THEN migration' = "refused" /\ UNCHANGED backup
     ELSE migration' = "backup" /\ backup' = Cut
  /\ UNCHANGED <<below, original, config, tmp>>

BackupMade ==
  /\ migration = "backup"
  /\ backup' = config
  /\ tmp' = Cut
  /\ migration' = "writing"
  /\ UNCHANGED <<below, original, config>>

(* The lighter content is written aside, whole before it is used. *)
WriteAside ==
  /\ migration = "writing"
  /\ tmp' = File(Slim[config.holds][below])
  /\ migration' = "written"
  /\ UNCHANGED <<below, original, config, backup>>

(* Mutant of Replace: the local layer is rewritten in place. *)
ReplaceInPlace ==
  /\ migration = "written"
  /\ IF config.cut
     THEN config' = tmp /\ tmp' = None /\ migration' = "done"
     ELSE config' = Cut /\ UNCHANGED <<tmp, migration>>
  /\ UNCHANGED <<below, original, backup>>

(* It takes the place of the old content at once. *)
Replace ==
  /\ migration = "written"
  /\ config' = tmp /\ tmp' = None
  /\ migration' = "done"
  /\ UNCHANGED <<below, original, backup>>

(* An error (disk full, rights): what was added is taken away. *)
MigrationFails ==
  /\ migration \in {"backup", "writing", "written"}
  /\ backup' = None /\ tmp' = None
  /\ migration' = "idle"
  /\ UNCHANGED <<below, original, config>>

(* The machine stops; a next run may find a half-made backup. *)
MachineStops ==
  /\ migration \in {"backup", "writing", "written", "done"}
  /\ migration' = "idle"
  /\ UNCHANGED <<below, original, config, backup, tmp>>

LayersNext ==
  \/ Write \/ Migrate \/ BackupMade \/ WriteAside \/ Replace
  \/ MigrationFails \/ MachineStops

LayersSpec == LayersInit /\ [][LayersNext]_layerVars

-----------------------------------------------------------------------------
(* Whenever the migration or the machine stops, config.json is whole and    *)
(* gives the configuration its owner wrote, and a migration that went       *)
(* through leaves the original in the backup.                               *)
MigrationKeepsConfig ==
  /\ ~config.cut
  /\ Effective(below, config.holds) = Effective(below, original)
  /\ migration = "done" => backup = File(original)
=============================================================================
