----------------------------- MODULE ModelFile -----------------------------
(***************************************************************************)
(* A model file and its reader: tools/convert_instructsam_to_gguf.py names *)
(* the tensors of a checkpoint, some of them twice, by a short hash of     *)
(* their names and writes first the GGUF file and then a sidecar that maps *)
(* the short names back; GgufModel of src/gguf_model.cpp loads the two     *)
(* files and finds a tensor by its name.  The converter may be killed at   *)
(* any point and run again, for another checkpoint, over the same files,   *)
(* and a GgufModel may load at any point, copying the data or mapping the  *)
(* file.  Each of its two reads of a file is one step.                     *)
(***************************************************************************)
EXTENDS Integers

CONSTANTS
  Checkpoints,
  Canonical,     \* names the converter gives to tensors of checkpoints
  Aliases,       \* names the stock decoder has for some of them
  ShortNames,    \* integers, in the order of the sidecar
  TensorsOf,     \* the tensors of each checkpoint, as canonical names
  Alias,         \* sam3cpp_alias_for
  Short,         \* short_name, a hash cut to 48 bits
  None

Names == Canonical \cup Aliases

AliasesOf(ns) == {Alias[n] : n \in ns} \ {None}

(* All the names that a file made from checkpoint c is to know. *)
NamesOf(c) == TensorsOf[c] \cup AliasesOf(TensorsOf[c])

(* Names whose hashes collide come in the same checkpoints: what two        *)
(* conversions have named alike the converter cannot see.                   *)
ASSUME ModelFileAssumption ==
  /\ ShortNames \subseteq Int /\ Names \cap ShortNames = {}
  /\ None \notin Checkpoints \cup Canonical /\ None \notin Aliases
  /\ None \notin Checkpoints \X Canonical
  /\ TensorsOf \in [Checkpoints -> SUBSET Canonical]
  /\ Alias \in [Canonical -> Aliases \cup {None}]
  /\ Short \in [Names -> ShortNames]
  /\ \A n, k \in Names : n # k /\ Short[n] = Short[k] =>
       \A c \in Checkpoints : n \in NamesOf(c) => k \in NamesOf(c)

VARIABLES
  cpc,       \* the converter
  ckpt,      \* the checkpoint it converts
  todo,      \* tensors not yet added
  tensors,   \* GGUFWriter: from short names to data
  tmap,      \* tensor_map: from short names to names
  gguf,      \* what the header of the GGUF file lists, None if it is missing or cut
  complete,  \* the data of all these tensors is in the file
  sidecar,   \* the pairs in the sidecar, none if there is no file
  done,      \* the checkpoint both files are of, None if they are not
  lpc,       \* the GgufModel
  index,     \* its tensors, by the name they have in the file
  aliases,   \* tensor_aliases_
  source,    \* the checkpoint that both files it read are of, or None
  memory     \* whose the data is: "copied", "mapped" from the file, or "torn",
             \* mapped where the file was cut or has been written again

vars == <<cpc, ckpt, todo, tensors, tmap, gguf, complete, sidecar, done,
          lpc, index, aliases, source, memory>>

converter == <<cpc, ckpt, todo, tensors, tmap>>
files == <<gguf, complete, sidecar, done>>
reader == <<lpc, index, aliases, source, memory>>

Empty == [s \in {} |-> None]

Init ==
  /\ cpc = "idle" /\ ckpt = None /\ todo = {} /\ tensors = Empty /\ tmap = Empty
  /\ gguf = None /\ complete = FALSE /\ sidecar = Empty /\ done = None
  /\ lpc = "empty" /\ index = Empty /\ aliases = Empty /\ source = None
  /\ memory = "copied"

Start(c) ==
  /\ cpc = "idle" /\ cpc' = "emit"
  /\ ckpt' = c /\ todo' = TensorsOf[c] /\ tensors' = Empty /\ tmap' = Empty
  /\ UNCHANGED files /\ UNCHANGED reader

(* The names a tensor is emitted under. *)
EmittedAs(n) == {n} \cup AliasesOf({n})

\* Faulty: only the name of the tensor itself is checked, not its alias.
ClashesCanonical(n) == Short[n] \in DOMAIN tmap

(* A short name is taken, or the tensor and its alias would share one. *)
Clashes(n) ==
  \/ \E k \in EmittedAs(n) : Short[k] \in DOMAIN tmap
  \/ \E k \in AliasesOf({n}) : Short[k] = Short[n]

NameWith(ns, s) == CHOOSE k \in ns : Short[k] = s

(* The data is added under the short name of each of the tensor's names. *)
Emit(n) ==
  /\ cpc = "emit" /\ n \in todo
  /\ LET shorts == {Short[k] : k \in EmittedAs(n)}
     IN \/ /\ ~ Clashes(n)
           /\ tensors' = [s \in DOMAIN tensors \cup shorts |->
                            IF s \in shorts THEN <<ckpt, n>> ELSE tensors[s]]
           /\ tmap' = [s \in DOMAIN tmap \cup shorts |->
                         IF s \in shorts THEN NameWith(EmittedAs(n), s) ELSE tmap[s]]
           /\ todo' = todo \ {n}
           /\ UNCHANGED cpc
        \/ /\ Clashes(n)
           /\ cpc' = "idle"
           /\ UNCHANGED <<todo, tensors, tmap>>
  /\ UNCHANGED ckpt /\ UNCHANGED files /\ UNCHANGED reader

(* The old file is emptied, under the mapping of a model that has mapped it. *)
OpenGguf ==
  /\ cpc = "emit" /\ todo = {}
  /\ cpc' = "header" /\ gguf' = None /\ complete' = FALSE /\ done' = None
  /\ memory' = IF memory = "mapped" THEN "torn" ELSE memory
  /\ UNCHANGED <<ckpt, todo, tensors, tmap, sidecar, lpc, index, aliases, source>>

(* Header, metadata and the list of the tensors. *)
WriteHeader ==
  /\ cpc = "header"
  /\ cpc' = "tensors" /\ gguf' = tensors
  /\ UNCHANGED <<ckpt, todo, tensors, tmap, complete, sidecar, done>> /\ UNCHANGED reader

WriteTensors ==
  /\ cpc = "tensors"
  /\ cpc' = "sidecar" /\ complete' = TRUE
  /\ UNCHANGED <<ckpt, todo, tensors, tmap, gguf, sidecar, done>> /\ UNCHANGED reader

(* The pairs are sorted by short names; any number of them is written first. *)
WriteSidecar ==
  /\ cpc = "sidecar"
  /\ \E k \in ShortNames : sidecar' = [s \in {t \in DOMAIN tmap : t < k} |-> tmap[s]]
  /\ cpc' = "rest"
  /\ UNCHANGED <<ckpt, todo, tensors, tmap, gguf, complete, done>> /\ UNCHANGED reader

FinishSidecar ==
  /\ cpc = "rest"
  /\ cpc' = "idle" /\ sidecar' = tmap /\ done' = ckpt
  /\ UNCHANGED <<ckpt, todo, tensors, tmap, gguf, complete>> /\ UNCHANGED reader

(* The converter is killed, or an exception ends it; files stay as they are. *)
Kill ==
  /\ cpc # "idle" /\ cpc' = "idle"
  /\ UNCHANGED <<ckpt, todo, tensors, tmap>> /\ UNCHANGED files /\ UNCHANGED reader

-----------------------------------------------------------------------------

(* With use_mmap only the header is read, and nobody asks for the data. *)
Remember == memory' \in IF complete THEN {"copied", "mapped"} ELSE {"torn"}

\* Faulty: load does not clear the model first.
LoadWithoutClear ==
  /\ lpc # "opened" /\ gguf # None
  /\ lpc' = "opened" /\ source' = done /\ Remember
  /\ index' = [s \in DOMAIN index \cup DOMAIN gguf |-> IF s \in DOMAIN index THEN index[s] ELSE gguf[s]]
  /\ UNCHANGED aliases /\ UNCHANGED converter /\ UNCHANGED files

(* load up to the sidecar: the model is cleared, then filled from the file,  *)
(* and stays cleared if the file is missing or its header is cut, if it has   *)
(* to be read and its data is cut, or if an allocation or a mapping fails.   *)
Load ==
  /\ lpc # "opened"
  /\ aliases' = Empty
  /\ \/ /\ gguf # None
        /\ lpc' = "opened" /\ index' = gguf /\ source' = done /\ Remember
     \/ lpc' = "empty" /\ index' = Empty /\ source' = None /\ memory' = "copied"
  /\ UNCHANGED converter /\ UNCHANGED files

(* Each pair maps its short name to itself and its name to the short name,  *)
(* unless an earlier pair has done so.                                       *)
AliasesFrom(pairs) ==
  [a \in DOMAIN pairs \cup {pairs[s] : s \in DOMAIN pairs} |->
     IF a \in DOMAIN pairs THEN a
     ELSE CHOOSE s \in DOMAIN pairs :
            pairs[s] = a /\ \A t \in DOMAIN pairs : pairs[t] = a => s <= t]

(* load_tensor_aliases; a missing sidecar is no error. *)
LoadAliases ==
  /\ lpc = "opened"
  /\ lpc' = "loaded" /\ aliases' = AliasesFrom(sidecar)
  /\ source' = IF done = source THEN source ELSE None
  /\ UNCHANGED <<index, memory>> /\ UNCHANGED converter /\ UNCHANGED files

Next ==
  \/ \E c \in Checkpoints : Start(c)
  \/ \E n \in Canonical : Emit(n)
  \/ OpenGguf \/ WriteHeader \/ WriteTensors \/ WriteSidecar \/ FinishSidecar \/ Kill
  \/ Load \/ LoadAliases

Spec == Init /\ [][Next]_vars

-----------------------------------------------------------------------------

(* resolve_tensor_name, and the tensor find_tensor and find_weight return.  *)
Resolve(n) == IF n \in DOMAIN aliases THEN aliases[n] ELSE n

Find(n) == IF Resolve(n) \in DOMAIN index THEN index[Resolve(n)] ELSE None

Tensors == {<<c, n>> : c \in Checkpoints, n \in Canonical}

IsPartial(f, S, T) == DOMAIN f \subseteq S /\ f \in [DOMAIN f -> T]

TypeOK ==
  /\ cpc \in {"idle", "emit", "header", "tensors", "sidecar", "rest"}
  /\ ckpt \in Checkpoints \cup {None} /\ todo \subseteq Canonical
  /\ IsPartial(tensors, ShortNames, Tensors) /\ IsPartial(tmap, ShortNames, Names)
  /\ (gguf = None \/ IsPartial(gguf, ShortNames, Tensors)) /\ complete \in BOOLEAN
  /\ IsPartial(sidecar, ShortNames, Names) /\ done \in Checkpoints \cup {None}
  /\ lpc \in {"empty", "opened", "loaded"}
  /\ IsPartial(index, ShortNames, Tensors)
  /\ IsPartial(aliases, ShortNames \cup Names, ShortNames)
  /\ source \in Checkpoints \cup {None} /\ memory \in {"copied", "mapped", "torn"}

(* A name never finds the data of another tensor, and all names find data    *)
(* of one checkpoint, whatever mixture of new and old files was loaded.      *)
(* Truncated hashes and two emissions of one tensor make this worth saying.  *)
(* Of the data of a mapping that was torn nothing can be said.               *)
NamesNeverCross ==
  memory # "torn" =>
    LET found == {n \in Names : Find(n) # None}
    IN /\ \A n \in found : n \in EmittedAs(Find(n)[2])
       /\ \A n, k \in found : Find(n)[1] = Find(k)[1]

(* A model loaded from the two files of one finished conversion finds every  *)
(* tensor of the checkpoint under its name and under the stock decoder's,    *)
(* until a file it has mapped is written again.                              *)
NamesResolve ==
  lpc = "loaded" /\ source # None /\ memory # "torn" =>
    \A n \in TensorsOf[source] : \A k \in EmittedAs(n) : Find(k) = <<source, n>>
=============================================================================
