---------------------------- MODULE Files_proofs ----------------------------
(***************************************************************************)
(* Proofs about what is read from files: the model file (ModelFile), how   *)
(* it was downloaded (ModelCache), and the table of merges (Tokenizer).    *)
(*                                                                         *)
(* First ModelFile.  Whatever was converted, killed and loaded, a          *)
(* GgufModel finds the data of the tensor it was asked for or none.  The   *)
(* invariant says of each file, and of what the model made of it, that it  *)
(* agrees with one checkpoint: Recorded of tensors by their short names,   *)
(* Lists of the pairs of a sidecar.                                        *)
(***************************************************************************)
EXTENDS ModelFile, ModelCache, Tokenizer, Lemmas, SequenceTheorems

(* f holds the tensors D of checkpoint c, each under all of its short names. *)
Recorded(f, c, D) ==
  /\ \A s \in DOMAIN f : \E m \in D : f[s] = <<c, m>> /\ \E k \in EmittedAs(m) : s = Short[k]
  /\ \A m \in D : \A k \in EmittedAs(m) : Short[k] \in DOMAIN f /\ f[Short[k]] = <<c, m>>

PairsNames(p) == \A s \in DOMAIN p : p[s] \in Names /\ Short[p[s]] = s

(* p lists every name of the tensors D. *)
Lists(p, D) == \A m \in D : \A k \in EmittedAs(m) : Short[k] \in DOMAIN p /\ p[Short[k]] = k

Converting ==
  cpc # "idle" =>
    /\ ckpt \in Checkpoints /\ todo \subseteq TensorsOf[ckpt]
    /\ Recorded(tensors, ckpt, TensorsOf[ckpt] \ todo)
    /\ DOMAIN tmap = DOMAIN tensors
    /\ PairsNames(tmap) /\ Lists(tmap, TensorsOf[ckpt] \ todo)
    /\ cpc # "emit" => todo = {} /\ done = None
    /\ cpc \in {"tensors", "sidecar", "rest"} => gguf = tensors

FilesAgree ==
  /\ gguf # None => \E c \in Checkpoints : Recorded(gguf, c, TensorsOf[c])
  /\ PairsNames(sidecar)
  /\ done # None => Recorded(gguf, done, TensorsOf[done]) /\ Lists(sidecar, TensorsOf[done])

ModelAgrees ==
  /\ index = Empty \/ \E c \in Checkpoints : Recorded(index, c, TensorsOf[c])
  /\ \A n \in Names : n \in DOMAIN aliases => aliases[n] = Short[n]
  /\ source # None => Recorded(index, source, TensorsOf[source])
  /\ lpc = "loaded" /\ source # None =>
       \A m \in TensorsOf[source] : \A k \in EmittedAs(m) : k \in DOMAIN aliases

IInv == TypeOK /\ Converting /\ FilesAgree /\ ModelAgrees

-----------------------------------------------------------------------------

(* A canonical name and its alias are names. *)
LEMMA EmittedNames ==
  ASSUME NEW n \in Canonical
  PROVE  EmittedAs(n) \subseteq Names /\ n \in EmittedAs(n)
BY ModelFileAssumption DEF EmittedAs, AliasesOf, Names

(* The names of a checkpoint are what its tensors are emitted as. *)
LEMMA NamesEmitted ==
  ASSUME NEW c \in Checkpoints, NEW n
  PROVE  n \in NamesOf(c) <=> \E m \in TensorsOf[c] : n \in EmittedAs(m)
BY DEF NamesOf, EmittedAs, AliasesOf

(* Adding a tensor whose short names are free keeps the tensors recorded. *)
LEMMA EmitRecords ==
  ASSUME NEW f, NEW c, NEW D, NEW n,
         Recorded(f, c, D),
         \A k \in EmittedAs(n) : Short[k] \notin DOMAIN f
  PROVE  LET shorts == {Short[k] : k \in EmittedAs(n)}
         IN Recorded([s \in DOMAIN f \cup shorts |-> IF s \in shorts THEN <<c, n>> ELSE f[s]],
                     c, D \cup {n})
<1> DEFINE shorts == {Short[k] : k \in EmittedAs(n)}
           g == [s \in DOMAIN f \cup shorts |-> IF s \in shorts THEN <<c, n>> ELSE f[s]]
<1>1. DOMAIN g = DOMAIN f \cup shorts
  OBVIOUS
<1>2. \A s \in shorts : g[s] = <<c, n>>
  OBVIOUS
<1>3. \A s \in DOMAIN f : s \notin shorts /\ g[s] = f[s]
  OBVIOUS
<1> HIDE DEF g
<1>4. ASSUME NEW s \in DOMAIN g
      PROVE  \E m \in D \cup {n} : g[s] = <<c, m>> /\ \E k \in EmittedAs(m) : s = Short[k]
  <2>1. CASE s \in shorts
    BY <2>1, <1>2
  <2>2. CASE s \in DOMAIN f
    BY <2>2, <1>3 DEF Recorded
  <2> QED BY <2>1, <2>2, <1>1
<1>5. ASSUME NEW m \in D \cup {n}, NEW k \in EmittedAs(m)
      PROVE  Short[k] \in DOMAIN g /\ g[Short[k]] = <<c, m>>
  <2>1. CASE m = n
    BY <2>1, <1>1, <1>2
  <2>2. CASE m \in D
    BY <2>2, <1>1, <1>3 DEF Recorded
  <2> QED BY <2>1, <2>2
<1>6. Recorded(g, c, D \cup {n})
  BY <1>4, <1>5 DEF Recorded
<1> QED BY <1>6 DEF g

(* Of a tensor whose name and alias do not share a short name, each short   *)
(* name stands for one name.                                                *)
LEMMA NameOfShort ==
  ASSUME NEW n \in Canonical, ~ Clashes(n), NEW k \in EmittedAs(n)
  PROVE  NameWith(EmittedAs(n), Short[k]) = k
<1>1. ASSUME NEW l \in EmittedAs(n), Short[l] = Short[k] PROVE l = k
  BY <1>1 DEF Clashes, EmittedAs, AliasesOf
<1> QED BY <1>1 DEF NameWith

(* Adding the names of a tensor keeps the names listed. *)
LEMMA EmitLists ==
  ASSUME NEW p, NEW D, NEW n \in Canonical,
         PairsNames(p), Lists(p, D), ~ Clashes(n),
         \A k \in EmittedAs(n) : Short[k] \notin DOMAIN p
  PROVE  LET shorts == {Short[k] : k \in EmittedAs(n)}
             q == [s \in DOMAIN p \cup shorts |->
                     IF s \in shorts THEN NameWith(EmittedAs(n), s) ELSE p[s]]
         IN PairsNames(q) /\ Lists(q, D \cup {n})
<1> DEFINE shorts == {Short[k] : k \in EmittedAs(n)}
           q == [s \in DOMAIN p \cup shorts |->
                   IF s \in shorts THEN NameWith(EmittedAs(n), s) ELSE p[s]]
<1>1. DOMAIN q = DOMAIN p \cup shorts
  OBVIOUS
<1>2. \A k \in EmittedAs(n) : q[Short[k]] = k
  BY NameOfShort
<1>3. \A s \in DOMAIN p : s \notin shorts /\ q[s] = p[s]
  OBVIOUS
<1> HIDE DEF q
<1>4. ASSUME NEW s \in DOMAIN q PROVE q[s] \in Names /\ Short[q[s]] = s
  <2>1. CASE s \in shorts
    BY <2>1, <1>2, EmittedNames
  <2>2. CASE s \in DOMAIN p
    BY <2>2, <1>3 DEF PairsNames
  <2> QED BY <2>1, <2>2, <1>1
<1>5. ASSUME NEW m \in D \cup {n}, NEW k \in EmittedAs(m)
      PROVE  Short[k] \in DOMAIN q /\ q[Short[k]] = k
  <2>1. CASE m = n
    BY <2>1, <1>1, <1>2
  <2>2. CASE m \in D
    BY <2>2, <1>1, <1>3 DEF Lists
  <2> QED BY <2>1, <2>2
<1>6. PairsNames(q) /\ Lists(q, D \cup {n})
  BY <1>4, <1>5 DEF PairsNames, Lists
<1> QED BY <1>6 DEF q

(* The aliases made from pairs send each name to its short name. *)
LEMMA AliasesResolve ==
  ASSUME NEW p, PairsNames(p), DOMAIN p \subseteq ShortNames
  PROVE  /\ \A n \in Names : n \in DOMAIN AliasesFrom(p) => AliasesFrom(p)[n] = Short[n]
         /\ \A s \in DOMAIN p : p[s] \in DOMAIN AliasesFrom(p)
         /\ IsPartial(AliasesFrom(p), ShortNames \cup Names, ShortNames)
<1>1. ASSUME NEW n \in Names, n \in DOMAIN AliasesFrom(p)
      PROVE  AliasesFrom(p)[n] = Short[n]
  <2>1. n \notin DOMAIN p
    BY ModelFileAssumption
  <2>2. PICK s \in DOMAIN p : p[s] = n
    BY <1>1, <2>1 DEF AliasesFrom
  <2>3. \A t \in DOMAIN p : p[t] = n => t = s
    BY <2>2 DEF PairsNames
  <2>4. s = Short[n] /\ s \in Int
    BY <2>2, ModelFileAssumption DEF PairsNames
  <2>5. \A t \in DOMAIN p : (p[t] = n /\ \A u \in DOMAIN p : p[u] = n => t <= u) <=> t = s
    BY <2>2, <2>3, <2>4
  <2>6. AliasesFrom(p)[n] =
          CHOOSE t \in DOMAIN p : p[t] = n /\ \A u \in DOMAIN p : p[u] = n => t <= u
    BY <1>1, <2>1 DEF AliasesFrom
  <2> QED BY <2>2, <2>4, <2>5, <2>6
<1>2. DOMAIN AliasesFrom(p) = DOMAIN p \cup {p[s] : s \in DOMAIN p}
  BY DEF AliasesFrom
<1>3. \A s \in DOMAIN p : AliasesFrom(p)[s] = s
  BY DEF AliasesFrom
<1>4. \A n \in Names : Short[n] \in ShortNames
  BY ModelFileAssumption
<1>5. \A x \in DOMAIN AliasesFrom(p) : x \in ShortNames \cup Names /\ AliasesFrom(p)[x] \in ShortNames
  BY <1>1, <1>2, <1>3, <1>4 DEF PairsNames
<1>6. AliasesFrom(p) = [x \in DOMAIN AliasesFrom(p) |-> AliasesFrom(p)[x]]
  BY DEF AliasesFrom
<1> QED BY <1>1, <1>2, <1>5, <1>6 DEF IsPartial

LEMMA InitIInv == Init => IInv
BY ModelFileAssumption
   DEF Init, IInv, TypeOK, IsPartial, Converting, FilesAgree, ModelAgrees, PairsNames, Empty

(* What holds of a converter and its files holds as long as no step of the  *)
(* converter is taken, and likewise for the model.                          *)
LEMMA ConverterStays ==
  Converting /\ FilesAgree /\ UNCHANGED converter /\ UNCHANGED files
    => Converting' /\ FilesAgree'
BY DEF Converting, FilesAgree, converter, files

LEMMA ReaderStays == ModelAgrees /\ UNCHANGED reader => ModelAgrees'
BY DEF ModelAgrees, reader

LEMMA StartIInv == ASSUME IInv, NEW c \in Checkpoints, Start(c) PROVE IInv'
<1> USE DEF IInv
<1>1. TypeOK'
  BY ModelFileAssumption DEF TypeOK, IsPartial, Start, files, reader, Empty
<1>2. DOMAIN tensors' = {} /\ DOMAIN tmap' = {}
  BY DEF Start, Empty
<1>3. TensorsOf'[ckpt'] \ todo' = {}
  BY DEF Start
<1>4. Converting'
  BY <1>2, <1>3 DEF Start, Converting, Recorded, PairsNames, Lists
<1>5. FilesAgree'
  BY DEF FilesAgree, Start, files
<1> QED BY <1>1, <1>4, <1>5, ReaderStays DEF Start

LEMMA EmitIInv == ASSUME IInv, NEW n \in Canonical, Emit(n) PROVE IInv'
<1> USE DEF IInv
<1> DEFINE shorts == {Short[k] : k \in EmittedAs(n)}
<1>0. FilesAgree' /\ ModelAgrees'
  BY ReaderStays DEF Emit, FilesAgree, files
<1>1. CASE Clashes(n)
  <2>1. UNCHANGED <<todo, tensors, tmap, ckpt, files, reader>> /\ cpc' = "idle"
    BY <1>1 DEF Emit
  <2> QED BY <2>1, <1>0 DEF TypeOK, Converting, files, reader
<1>2. CASE ~ Clashes(n)
  <2>1. /\ tensors' = [s \in DOMAIN tensors \cup shorts |->
                         IF s \in shorts THEN <<ckpt, n>> ELSE tensors[s]]
        /\ tmap' = [s \in DOMAIN tmap \cup shorts |->
                      IF s \in shorts THEN NameWith(EmittedAs(n), s) ELSE tmap[s]]
        /\ todo' = todo \ {n} /\ n \in todo /\ cpc = "emit" /\ cpc' = "emit" /\ ckpt' = ckpt
    BY <1>2 DEF Emit
  <2>2. /\ ckpt \in Checkpoints /\ DOMAIN tmap = DOMAIN tensors
        /\ Recorded(tensors, ckpt, TensorsOf[ckpt] \ todo)
        /\ PairsNames(tmap) /\ Lists(tmap, TensorsOf[ckpt] \ todo)
    BY <2>1 DEF Converting
  <2>3. \A k \in EmittedAs(n) : Short[k] \notin DOMAIN tmap
    BY <1>2 DEF Clashes
  <2>4. Recorded(tensors', ckpt, (TensorsOf[ckpt] \ todo) \cup {n})
    BY <2>1, <2>2, <2>3, EmitRecords
  <2>5. PairsNames(tmap') /\ Lists(tmap', (TensorsOf[ckpt] \ todo) \cup {n})
    BY <2>1, <2>2, <2>3, <1>2, EmitLists
  <2>6. CASE n \in TensorsOf[ckpt]
    <3>1. (TensorsOf[ckpt] \ todo) \cup {n} = TensorsOf[ckpt] \ todo'
      BY <2>1, <2>6
    <3>2. DOMAIN tmap' = DOMAIN tensors'
      BY <2>1, <2>2
    <3>3. Converting'
      BY <2>1, <2>2, <2>4, <2>5, <3>1, <3>2 DEF Converting
    <3>4. shorts \subseteq ShortNames
      BY EmittedNames, ModelFileAssumption
    <3>5. IsPartial(tensors', ShortNames, Tensors)
      BY <2>1, <2>2, <3>4 DEF TypeOK, IsPartial, Tensors
    <3>6. \A s \in shorts : NameWith(EmittedAs(n), s) \in Names
      BY <1>2, NameOfShort, EmittedNames
    <3>7. IsPartial(tmap', ShortNames, Names)
      BY <2>1, <3>4, <3>6 DEF TypeOK, IsPartial
    <3>8. TypeOK'
      BY <2>1, <2>2, <3>5, <3>7 DEF TypeOK, Emit, files, reader, IsPartial
    <3> QED BY <3>3, <3>8, <1>0
  <2> QED BY <2>1, <2>6 DEF Converting
<1> QED BY <1>1, <1>2

LEMMA WriteIInv == ASSUME IInv, OpenGguf \/ WriteHeader \/ WriteTensors \/ WriteSidecar \/ FinishSidecar \/ Kill PROVE IInv'
<1> USE DEF IInv
<1>1. CASE OpenGguf
  <2>1. TypeOK'
    BY <1>1 DEF OpenGguf, TypeOK
  <2>2. Converting' /\ FilesAgree'
    BY <1>1 DEF OpenGguf, Converting, FilesAgree
  <2>3. ModelAgrees'
    BY <1>1 DEF OpenGguf, ModelAgrees
  <2> QED BY <2>1, <2>2, <2>3
<1>2. CASE WriteHeader
  <2>1. todo = {} /\ done = None /\ ckpt \in Checkpoints /\ Recorded(tensors, ckpt, TensorsOf[ckpt])
    BY <1>2 DEF WriteHeader, Converting
  <2>2. TypeOK'
    BY <1>2 DEF WriteHeader, TypeOK, reader
  <2>3. Converting' /\ FilesAgree'
    BY <1>2, <2>1 DEF WriteHeader, Converting, FilesAgree
  <2> QED BY <1>2, <2>2, <2>3, ReaderStays DEF WriteHeader, reader
<1>3. CASE WriteTensors
  <2>1. TypeOK'
    BY <1>3 DEF WriteTensors, TypeOK, reader
  <2>2. Converting' /\ FilesAgree'
    BY <1>3 DEF WriteTensors, Converting, FilesAgree
  <2> QED BY <1>3, <2>1, <2>2, ReaderStays DEF WriteTensors, reader
<1>4. CASE WriteSidecar
  <2>1. todo = {} /\ done = None /\ PairsNames(tmap)
    BY <1>4 DEF WriteSidecar, Converting
  <2>2. PICK k \in ShortNames : sidecar' = [s \in {t \in DOMAIN tmap : t < k} |-> tmap[s]]
    BY <1>4 DEF WriteSidecar
  <2>3. PairsNames(sidecar')
    BY <2>1, <2>2 DEF PairsNames
  <2>4. IsPartial(sidecar', ShortNames, Names)
    BY <2>2 DEF TypeOK, IsPartial
  <2>5. TypeOK'
    BY <1>4, <2>4 DEF WriteSidecar, TypeOK, reader
  <2>6. Converting' /\ FilesAgree'
    BY <1>4, <2>1, <2>3 DEF WriteSidecar, Converting, FilesAgree
  <2> QED BY <1>4, <2>5, <2>6, ReaderStays DEF WriteSidecar
<1>5. CASE FinishSidecar
  <2>1. /\ todo = {} /\ gguf = tensors /\ ckpt \in Checkpoints
        /\ Recorded(tensors, ckpt, TensorsOf[ckpt])
        /\ PairsNames(tmap) /\ Lists(tmap, TensorsOf[ckpt])
    BY <1>5 DEF FinishSidecar, Converting
  <2>2. TypeOK'
    BY <1>5, <2>1 DEF FinishSidecar, TypeOK, reader, IsPartial
  <2>3. Converting' /\ FilesAgree'
    BY <1>5, <2>1 DEF FinishSidecar, Converting, FilesAgree
  <2> QED BY <1>5, <2>2, <2>3, ReaderStays DEF FinishSidecar
<1>6. CASE Kill
  BY <1>6, ReaderStays DEF Kill, TypeOK, Converting, FilesAgree, files, reader
<1> QED BY <1>1, <1>2, <1>3, <1>4, <1>5, <1>6

LEMMA LoadIInv == ASSUME IInv, Load PROVE IInv'
<1> USE DEF IInv
<1>1. Converting' /\ FilesAgree'
  BY ConverterStays DEF Load
<1>2. CASE gguf # None /\ lpc' = "opened" /\ index' = gguf /\ source' = done /\ Remember
  <2>1. TypeOK'
    BY <1>2 DEF Load, Remember, TypeOK, IsPartial, converter, files, Empty
  <2>2. ModelAgrees'
    BY <1>2 DEF Load, FilesAgree, ModelAgrees, Empty
  <2> QED BY <1>1, <2>1, <2>2
<1>3. CASE lpc' = "empty" /\ index' = Empty /\ source' = None /\ memory' = "copied"
  BY <1>1, <1>3 DEF Load, TypeOK, IsPartial, ModelAgrees, converter, files, Empty
<1> QED BY <1>2, <1>3 DEF Load

LEMMA LoadAliasesIInv == ASSUME IInv, LoadAliases PROVE IInv'
<1> USE DEF IInv
<1>1. Converting' /\ FilesAgree'
  BY ConverterStays DEF LoadAliases
<1>2. PairsNames(sidecar) /\ DOMAIN sidecar \subseteq ShortNames
  BY DEF FilesAgree, TypeOK, IsPartial
<1>3. /\ \A n \in Names : n \in DOMAIN aliases' => aliases'[n] = Short[n]
      /\ \A s \in DOMAIN sidecar : sidecar[s] \in DOMAIN aliases'
      /\ IsPartial(aliases', ShortNames \cup Names, ShortNames)
  BY <1>2, AliasesResolve DEF LoadAliases
<1>4. source' # None => source' = source /\ source' = done
  BY DEF LoadAliases
<1>5. TypeOK'
  BY <1>3, <1>4 DEF LoadAliases, TypeOK, converter, files
<1>6. ASSUME source' # None
      PROVE  \A m \in TensorsOf[source'] : \A k \in EmittedAs(m) : k \in DOMAIN aliases'
  BY <1>3, <1>4, <1>6 DEF FilesAgree, Lists
<1>7. ModelAgrees'
  BY <1>3, <1>4, <1>6 DEF LoadAliases, ModelAgrees
<1> QED BY <1>1, <1>5, <1>7

LEMMA InductiveIInv == IInv /\ [Next]_vars => IInv'
<1> SUFFICES ASSUME IInv, [Next]_vars PROVE IInv'
  OBVIOUS
<1>1. ASSUME NEW c \in Checkpoints, Start(c) PROVE IInv'
  BY <1>1, StartIInv
<1>2. ASSUME NEW n \in Canonical, Emit(n) PROVE IInv'
  BY <1>2, EmitIInv
<1>3. CASE OpenGguf \/ WriteHeader \/ WriteTensors \/ WriteSidecar \/ FinishSidecar \/ Kill
  BY <1>3, WriteIInv
<1>4. CASE Load
  BY <1>4, LoadIInv
<1>5. CASE LoadAliases
  BY <1>5, LoadAliasesIInv
<1>6. CASE UNCHANGED vars
  BY <1>6 DEF vars, IInv, TypeOK, Converting, FilesAgree, ModelAgrees
<1> QED BY <1>1, <1>2, <1>3, <1>4, <1>5, <1>6 DEF Next

LEMMA AlwaysIInv == Spec => []IInv
BY InitIInv, InductiveIInv, PTL DEF Spec

-----------------------------------------------------------------------------

(* The files, the converter and the model hold what their types say. *)
THEOREM TypeCorrect == Spec => []TypeOK
<1>1. IInv => TypeOK
  BY DEF IInv
<1> QED BY <1>1, AlwaysIInv, PTL

(* A name that is found is found in the one checkpoint of the index.  If it *)
(* is not a name of the tensor that was stored, one of that tensor's names  *)
(* has its hash; then it belongs to the same checkpoint and would have been *)
(* stored under that hash too.                                              *)
LEMMA FoundIsRight ==
  ASSUME IInv, NEW c \in Checkpoints, Recorded(index, c, TensorsOf[c]),
         NEW n \in Names, Find(n) # None
  PROVE  Find(n)[1] = c /\ n \in EmittedAs(Find(n)[2])
<1>1. Resolve(n) \in DOMAIN index /\ Find(n) = index[Resolve(n)]
  BY DEF Find
<1>2. Resolve(n) \in ShortNames
  BY <1>1 DEF IInv, TypeOK, IsPartial
<1>3. Resolve(n) = Short[n]
  BY <1>2, ModelFileAssumption DEF Resolve, IInv, ModelAgrees
<1>4. PICK m \in TensorsOf[c] : Find(n) = <<c, m>> /\ \E k \in EmittedAs(m) : Short[n] = Short[k]
  BY <1>1, <1>3 DEF Recorded
<1>5. PICK k \in EmittedAs(m) : Short[n] = Short[k]
  BY <1>4
<1>6. k \in Names /\ k \in NamesOf(c)
  BY NamesEmitted, EmittedNames, ModelFileAssumption
<1>7. n \in NamesOf(c)
  BY <1>5, <1>6, ModelFileAssumption
<1>8. PICK l \in TensorsOf[c] : n \in EmittedAs(l)
  BY <1>7, NamesEmitted
<1>9. Find(n) = <<c, l>>
  BY <1>1, <1>3, <1>8 DEF Recorded
<1> QED BY <1>8, <1>9

(* NamesNeverCross, for all checkpoints, names and hashes. *)
THEOREM NoNameCrosses == Spec => []NamesNeverCross
<1>1. ASSUME IInv PROVE NamesNeverCross
  <2>1. CASE index = Empty
    BY <2>1 DEF NamesNeverCross, Find, Empty
  <2>2. ASSUME NEW c \in Checkpoints, Recorded(index, c, TensorsOf[c]) PROVE NamesNeverCross
    BY <1>1, <2>2, FoundIsRight DEF NamesNeverCross
  <2> QED BY <1>1, <2>1, <2>2 DEF IInv, ModelAgrees
<1> QED BY <1>1, AlwaysIInv, PTL

(* NamesResolve: what a finished conversion wrote is found, all of it. *)
THEOREM FinishedFilesResolve == Spec => []NamesResolve
<1>1. ASSUME IInv PROVE NamesResolve
  <2> SUFFICES ASSUME lpc = "loaded", source # None, memory # "torn",
                      NEW n \in TensorsOf[source], NEW k \in EmittedAs(n)
               PROVE  Find(k) = <<source, n>>
    BY DEF NamesResolve
  <2>1. k \in Names /\ k \in DOMAIN aliases
    BY <1>1, EmittedNames, ModelFileAssumption DEF IInv, ModelAgrees, TypeOK
  <2>2. Resolve(k) = Short[k]
    BY <1>1, <2>1 DEF IInv, ModelAgrees, Resolve
  <2>3. Short[k] \in DOMAIN index /\ index[Short[k]] = <<source, n>>
    BY <1>1 DEF IInv, ModelAgrees, Recorded
  <2> QED BY <2>2, <2>3 DEF Find
<1> QED BY <1>1, AlwaysIInv, PTL

-----------------------------------------------------------------------------
(***************************************************************************)
(* How the file came to be there: ModelCache, for any set of processes and *)
(* any file length.                                                        *)
(*                                                                         *)
(* The safety properties follow from three facts that every step keeps: a  *)
(* process has nothing written before it opens its file, a file that has a *)
(* name was opened by someone, and what an opened file lacks is what one of*)
(* its writers has not come to.                                            *)
(***************************************************************************)

(* The type invariant holds: offsets never pass the end of the file. *)
THEOREM DownloadTypeCorrect == CacheSpec => []CacheTypeOK
<1>1. CacheInit => CacheTypeOK
  BY ModelCacheAssumption DEF CacheInit, CacheTypeOK, FileNames, Chunks
<1>2. CacheTypeOK /\ [CacheNext]_cacheVars => CacheTypeOK'
  <2> SUFFICES ASSUME CacheTypeOK, [CacheNext]_cacheVars PROVE CacheTypeOK'
    OBVIOUS
  <2> USE ModelCacheAssumption DEF CacheTypeOK, FileNames, Chunks
  <2>1. ASSUME NEW p \in Procs, Lookup(p) PROVE CacheTypeOK'
    BY <2>1 DEF Lookup, Goto, AfterLookup
  <2>2. ASSUME NEW p \in Procs, Open(p) PROVE CacheTypeOK'
    BY <2>2 DEF Open, Goto
  <2>3. ASSUME NEW p \in Procs, Write(p) PROVE CacheTypeOK'
    <3>1. at[p] \in Chunks /\ at[p] + 1 \in 0 .. NChunks
      BY <2>3 DEF Write, MoreToWrite
    <3>2. at' \in [Procs -> 0 .. NChunks]
      BY <2>3, <3>1 DEF Write, NextAt
    <3>3. data' \in [Procs -> SUBSET Chunks]
      BY <2>3, <3>1 DEF Write
    <3> QED
      BY <2>3, <3>2, <3>3 DEF Write
  <2>4. ASSUME NEW p \in Procs, EndOfBody(p) PROVE CacheTypeOK'
    BY <2>4 DEF EndOfBody, Goto
  <2>5. ASSUME NEW p \in Procs, Raise(p) PROVE CacheTypeOK'
    BY <2>5 DEF Raise, Goto, Unlinked
  <2>6. ASSUME NEW p \in Procs, Rename(p) PROVE CacheTypeOK'
    BY <2>6 DEF Rename, Goto
  <2>7. ASSUME NEW p \in Procs, KillProcess(p) PROVE CacheTypeOK'
    BY <2>7 DEF KillProcess, Goto
  <2>8. ASSUME NEW p \in Procs, Stall(p) PROVE CacheTypeOK'
    BY <2>8 DEF Stall, Goto
  <2>9. CASE UNCHANGED cacheVars
    BY <2>9 DEF cacheVars
  <2> QED
    BY <2>1, <2>2, <2>3, <2>4, <2>5, <2>6, <2>7, <2>8, <2>9
    DEF CacheNext, Step, Stopped
<1> QED
  BY <1>1, <1>2, PTL DEF CacheSpec

-----------------------------------------------------------------------------
(* What a step keeps: nothing is written before a file is opened ...       *)
NothingBeforeOpen ==
  \A p \in Procs : pc[p] \in {"start", "open"} => at[p] = 0 /\ fd[p] = NoFile

(* ... a name stands for a file that some process opened ...               *)
NamedIsOpened == \A n \in FileNames : dir[n] # NoFile => \E p \in Procs : fd[p] = dir[n]

(* ... and an opened file lacks what one of its writers has not come to.   *)
LacksOnlyUnwritten ==
  \A f \in Procs : \A k \in Chunks \ data[f] :
    (\E q \in Procs : fd[q] = f) => \E p \in Procs : fd[p] = f /\ at[p] <= k

WriterInv == CacheTypeOK /\ NothingBeforeOpen /\ NamedIsOpened /\ LacksOnlyUnwritten

LEMMA WriterInvInit == CacheInit => WriterInv
  <1> SUFFICES ASSUME CacheInit PROVE WriterInv
    OBVIOUS
  <1> QED
    BY ModelCacheAssumption
    DEF CacheInit, WriterInv, CacheTypeOK, FileNames, Chunks, NothingBeforeOpen, NamedIsOpened,
        LacksOnlyUnwritten

(* A step that opens and writes nothing keeps what is said of files, if it *)
(* gives names to named files only.                                        *)
LEMMA FilesKept ==
  ASSUME WriterInv, UNCHANGED <<data, fd, at>>,
         \A n \in FileNames : dir'[n] # NoFile => \E m \in FileNames : dir'[n] = dir[m]
  PROVE  NamedIsOpened' /\ LacksOnlyUnwritten'
  BY DEF WriterInv, NamedIsOpened, LacksOnlyUnwritten

LEMMA WriterInvNext == WriterInv /\ CacheTypeOK' /\ [CacheNext]_cacheVars => WriterInv'
<1> SUFFICES ASSUME WriterInv, CacheTypeOK', [CacheNext]_cacheVars PROVE WriterInv'
  OBVIOUS
<1> USE ModelCacheAssumption
<1>1. ASSUME NEW p \in Procs, Lookup(p) PROVE WriterInv'
  <2>1. NothingBeforeOpen'
    BY <1>1 DEF WriterInv, CacheTypeOK, NothingBeforeOpen, Lookup, Goto, AfterLookup
  <2> QED
    BY <1>1, <2>1, FilesKept DEF Lookup, WriterInv
<1>2. ASSUME NEW p \in Procs, Open(p) PROVE WriterInv'
  <2> DEFINE f == IF dir["part"] = NoFile THEN p ELSE dir["part"]
  <2>1. /\ pc[p] = "open" /\ at[p] = 0 /\ fd[p] = NoFile
        /\ f \in Procs /\ dir' = [dir EXCEPT !["part"] = f]
        /\ fd' = [fd EXCEPT ![p] = f] /\ data' = [data EXCEPT ![f] = {}]
        /\ at' = at /\ pc' = [pc EXCEPT ![p] = "download"]
    BY <1>2 DEF WriterInv, CacheTypeOK, FileNames, NothingBeforeOpen, Open, Goto
  <2> HIDE DEF f
  <2>2. NothingBeforeOpen'
    BY <2>1 DEF WriterInv, CacheTypeOK, NothingBeforeOpen
  <2>3. fd'[p] = f /\ \A q \in Procs \ {p} : fd'[q] = fd[q]
    BY <2>1 DEF WriterInv, CacheTypeOK
  <2>4. \A q \in Procs : fd[q] # NoFile => fd'[q] = fd[q]
    BY <2>1, <2>3
  <2>5. NamedIsOpened'
    <3> SUFFICES ASSUME NEW n \in FileNames, dir'[n] # NoFile
                 PROVE \E q \in Procs : fd'[q] = dir'[n]
      BY DEF NamedIsOpened
    <3>1. CASE n = "part"
      BY <3>1, <2>1, <2>3 DEF WriterInv, CacheTypeOK
    <3>2. CASE n # "part"
      BY <3>2, <2>1, <2>4 DEF WriterInv, CacheTypeOK, NamedIsOpened
    <3> QED
      BY <3>1, <3>2
  <2>6. LacksOnlyUnwritten'
    <3> SUFFICES ASSUME NEW g \in Procs, NEW k \in Chunks, k \notin data'[g],
                        NEW q \in Procs, fd'[q] = g
                 PROVE \E w \in Procs : fd'[w] = g /\ at'[w] <= k
      BY DEF LacksOnlyUnwritten
    <3>1. CASE g = f
      BY <3>1, <2>1, <2>3 DEF Chunks
    <3>2. CASE g # f
      <4>1. fd[q] = g /\ k \notin data[g]
        BY <3>2, <2>1, <2>3 DEF WriterInv, CacheTypeOK
      <4>2. PICK w \in Procs : fd[w] = g /\ at[w] <= k
        BY <4>1 DEF WriterInv, LacksOnlyUnwritten
      <4> QED
        BY <4>2, <2>1, <2>4
    <3> QED
      BY <3>1, <3>2
  <2> QED
    BY <2>2, <2>5, <2>6 DEF WriterInv
<1>3. ASSUME NEW p \in Procs, Write(p) PROVE WriterInv'
  <2>1. /\ pc[p] = "download" /\ pc' = pc /\ dir' = dir /\ fd' = fd
        /\ at' = [at EXCEPT ![p] = at[p] + 1]
        /\ data' = [data EXCEPT ![fd[p]] = data[fd[p]] \cup {at[p]}]
    BY <1>3 DEF Write, NextAt
  <2>2. NothingBeforeOpen'
    BY <2>1 DEF WriterInv, CacheTypeOK, NothingBeforeOpen
  <2>3. NamedIsOpened'
    BY <2>1 DEF WriterInv, NamedIsOpened
  <2>4. LacksOnlyUnwritten'
    <3> SUFFICES ASSUME NEW g \in Procs, NEW k \in Chunks, k \notin data'[g],
                        NEW q \in Procs, fd'[q] = g
                 PROVE \E w \in Procs : fd'[w] = g /\ at'[w] <= k
      BY DEF LacksOnlyUnwritten
    <3>1. k \notin data[g] /\ fd[q] = g
      BY <2>1 DEF WriterInv, CacheTypeOK
    <3>2. PICK w \in Procs : fd[w] = g /\ at[w] <= k
      BY <3>1 DEF WriterInv, LacksOnlyUnwritten
    <3>3. CASE w # p
      BY <3>2, <3>3, <2>1 DEF WriterInv, CacheTypeOK
    <3>4. CASE w = p
      <4>1. k # at[p]
        BY <3>2, <3>4, <2>1 DEF WriterInv, CacheTypeOK
      <4>2. at[p] \in Int /\ k \in Int /\ at[p] <= k
        BY <3>2, <3>4 DEF WriterInv, CacheTypeOK, Chunks
      <4>3. at[p] + 1 <= k
        BY <4>1, <4>2
      <4> QED
        BY <4>3, <3>2, <3>4, <2>1 DEF WriterInv, CacheTypeOK
    <3> QED
      BY <3>3, <3>4
  <2> QED
    BY <2>2, <2>3, <2>4 DEF WriterInv
<1>4. ASSUME NEW p \in Procs, EndOfBody(p) PROVE WriterInv'
  <2>1. NothingBeforeOpen'
    BY <1>4 DEF WriterInv, CacheTypeOK, NothingBeforeOpen, EndOfBody, Goto
  <2> QED
    BY <1>4, <2>1, FilesKept DEF EndOfBody, WriterInv
<1>5. ASSUME NEW p \in Procs, Raise(p) PROVE WriterInv'
  <2>1. NothingBeforeOpen'
    BY <1>5 DEF WriterInv, CacheTypeOK, NothingBeforeOpen, Raise, Goto
  <2>2. \A n \in FileNames : dir'[n] # NoFile => dir'[n] = dir[n]
    BY <1>5 DEF WriterInv, CacheTypeOK, Raise, Unlinked, FileNames
  <2> QED
    BY <1>5, <2>1, <2>2, FilesKept DEF Raise, WriterInv
<1>6. ASSUME NEW p \in Procs, Rename(p) PROVE WriterInv'
  <2>1. NothingBeforeOpen'
    BY <1>6 DEF WriterInv, CacheTypeOK, NothingBeforeOpen, Rename, Goto
  <2>2. \A n \in FileNames : dir'[n] # NoFile => \E m \in FileNames : dir'[n] = dir[m]
    BY <1>6 DEF WriterInv, CacheTypeOK, Rename, FileNames
  <2> QED
    BY <1>6, <2>1, <2>2, FilesKept DEF Rename, WriterInv
<1>7. ASSUME NEW p \in Procs, KillProcess(p) \/ Stall(p) PROVE WriterInv'
  <2>1. NothingBeforeOpen'
    BY <1>7 DEF WriterInv, CacheTypeOK, NothingBeforeOpen, KillProcess, Stall, Goto
  <2> QED
    BY <1>7, <2>1, FilesKept DEF KillProcess, Stall, WriterInv
<1>8. CASE UNCHANGED cacheVars
  BY <1>8 DEF cacheVars, WriterInv, NothingBeforeOpen, NamedIsOpened, LacksOnlyUnwritten
<1> QED
  BY <1>1, <1>2, <1>3, <1>4, <1>5, <1>6, <1>7, <1>8 DEF CacheNext, Step, Stopped

(* However many processes download the model at once, what the cached file *)
(* lacks is what one of its writers has not come to: downloads that run to *)
(* the end leave a whole file.                                             *)
THEOREM CachedFileWhole == CacheSpec => []CachedLacksOnlyUnwritten
<1>1. WriterInv => CachedLacksOnlyUnwritten
  BY DEF WriterInv, CacheTypeOK, NamedIsOpened, LacksOnlyUnwritten,
         CachedLacksOnlyUnwritten, FileNames
<1> QED
  BY <1>1, WriterInvInit, WriterInvNext, DownloadTypeCorrect, PTL DEF CacheSpec

-----------------------------------------------------------------------------
(* While the ".part" name is taken, somebody is at it, or died at it. *)
PartIsOwned ==
  dir["part"] # NoFile =>
    \E p \in Procs : pc[p] \in {"download", "rename", "killed", "stalled"}

(* Processes that return or raise leave no ".part" file behind, whoever's  *)
(* it was.                                                                 *)
THEOREM NoPartLeftBehind == CacheSpec => []NoPartLeft
<1>1. CacheInit => PartIsOwned
  BY DEF CacheInit, PartIsOwned, FileNames
<1>2. CacheTypeOK /\ PartIsOwned /\ [CacheNext]_cacheVars => PartIsOwned'
  <2> SUFFICES ASSUME CacheTypeOK, PartIsOwned, [CacheNext]_cacheVars PROVE PartIsOwned'
    OBVIOUS
  <2>1. ASSUME NEW p \in Procs, Lookup(p) PROVE PartIsOwned'
    BY <2>1 DEF CacheTypeOK, PartIsOwned, Lookup, Goto
  <2>2. ASSUME NEW p \in Procs, Open(p) PROVE PartIsOwned'
    BY <2>2 DEF CacheTypeOK, PartIsOwned, Open, Goto
  <2>3. ASSUME NEW p \in Procs, Write(p) PROVE PartIsOwned'
    BY <2>3 DEF PartIsOwned, Write
  <2>4. ASSUME NEW p \in Procs, EndOfBody(p) PROVE PartIsOwned'
    BY <2>4 DEF CacheTypeOK, PartIsOwned, EndOfBody, Goto
  <2>5. ASSUME NEW p \in Procs, Raise(p) PROVE PartIsOwned'
    BY <2>5 DEF CacheTypeOK, PartIsOwned, Raise, Unlinked, FileNames
  <2>6. ASSUME NEW p \in Procs, Rename(p) PROVE PartIsOwned'
    BY <2>6 DEF CacheTypeOK, PartIsOwned, Rename, FileNames
  <2>7. ASSUME NEW p \in Procs, KillProcess(p) \/ Stall(p) PROVE PartIsOwned'
    BY <2>7 DEF CacheTypeOK, PartIsOwned, KillProcess, Stall, Goto
  <2>8. CASE UNCHANGED cacheVars
    BY <2>8 DEF cacheVars, PartIsOwned
  <2> QED
    BY <2>1, <2>2, <2>3, <2>4, <2>5, <2>6, <2>7, <2>8 DEF CacheNext, Step, Stopped
<1>3. PartIsOwned => NoPartLeft
  BY DEF PartIsOwned, NoPartLeft
<1> QED
  BY <1>1, <1>2, <1>3, DownloadTypeCorrect, PTL DEF CacheSpec

(* The model, once it is in the cache, is never taken away again. *)
THEOREM CachedForEver == CacheSpec => CachedStays
<1>1. CacheTypeOK /\ [CacheNext]_cacheVars
        => [dir["model"] # NoFile => dir["model"]' # NoFile]_cacheVars
  <2> SUFFICES ASSUME CacheTypeOK, CacheNext, dir["model"] # NoFile PROVE dir["model"]' # NoFile
    OBVIOUS
  <2>1. ASSUME NEW p \in Procs, Step(p) PROVE dir["model"]' # NoFile
    BY <2>1 DEF CacheTypeOK, FileNames, Step, Lookup, Open, Write, EndOfBody, Raise,
                Unlinked, Rename
  <2>2. ASSUME NEW p \in Procs, KillProcess(p) \/ Stall(p) PROVE dir["model"]' # NoFile
    BY <2>2 DEF KillProcess, Stall
  <2>3. CASE Stopped
    BY <2>3 DEF Stopped, cacheVars
  <2> QED
    BY <2>1, <2>2, <2>3 DEF CacheNext
<1> QED
  BY <1>1, DownloadTypeCorrect, PTL DEF CacheSpec, CachedStays

-----------------------------------------------------------------------------
(***************************************************************************)
(* The other file that is read, the table of merges: Tokenizer, for every  *)
(* alphabet, well-formed table and prompt.  Byte pair merging by the best  *)
(* pair of the word is going through the table once, and the cache is      *)
(* right for every later call.                                             *)
(***************************************************************************)

-----------------------------------------------------------------------------
(***************************************************************************)
(* One pass over a word.                                                   *)
(***************************************************************************)

Joined(new, s, pair) ==
  IF new # <<>> /\ Last(new) = pair[1] /\ s = pair[2]
    THEN Append(Front(new), Result(pair))
    ELSE Append(new, s)

Pass(w, pair) ==
  CHOOSE h : h = [i \in 0 .. Len(w) |->
                    IF i = 0 THEN <<>> ELSE Joined(h[i - 1], w[i], pair)]

LEMMA MergedIs == \A w, pair : Merged(w, pair) = Pass(w, pair)[Len(w)]
BY DEF Merged, Pass, Joined

LEMMA JoinedType ==
  ASSUME NEW E, NEW new \in Seq(E), NEW s \in E, NEW pair, Result(pair) \in E
  PROVE  Joined(new, s, pair) \in Seq(E)
<1>1. Append(new, s) \in Seq(E)
  OBVIOUS
<1>2. Front(new) \in Seq(E)
  BY DEF Front
<1>3. Append(Front(new), Result(pair)) \in Seq(E)
  BY <1>2
<1>4. QED
  BY <1>1, <1>3 DEF Joined

LEMMA PassRuns ==
  ASSUME NEW E, NEW w \in Seq(E), NEW pair, Result(pair) \in E
  PROVE  /\ Pass(w, pair)[0] = <<>>
         /\ \A i \in 1 .. Len(w) : Pass(w, pair)[i] = Joined(Pass(w, pair)[i - 1], w[i], pair)
<1> DEFINE n == Len(w)
           f == [x \in Seq(E) \X (1 .. n) |-> Joined(x[1], w[x[2]], pair)]
<1>1. n \in Nat /\ <<>> \in Seq(E)
  OBVIOUS
<1>2. \A new \in Seq(E), i \in 1 .. n : Joined(new, w[i], pair) \in Seq(E)
  BY JoinedType
<1>3. \A new \in Seq(E), i \in 1 .. n : f[<<new, i>>] = Joined(new, w[i], pair)
  OBVIOUS
<1> HIDE DEF f
<1>4. PICK h \in [0 .. n -> Seq(E)] :
        h[0] = <<>> /\ \A i \in 1 .. n : h[i] = f[<<h[i - 1], i>>]
  <2>1. Turns(Seq(E), f, n)
    BY <1>2, <1>3 DEF Turns
  <2> HIDE DEF n
  <2>2. PICK h : Looped(h, Seq(E), <<>>, f, n)
    BY <1>1, <2>1, LoopRuns, Zenon
  <2>3. QED
    BY <2>2 DEF Looped
<1>5. \A i \in 1 .. n : h[i - 1] \in Seq(E)
  BY <1>1
<1>6. \A i \in 0 .. n : i = 0 \/ i \in 1 .. n
  BY <1>1
<1>7. h = [i \in 0 .. n |-> IF i = 0 THEN <<>> ELSE Joined(h[i - 1], w[i], pair)]
  BY <1>3, <1>4, <1>5, <1>6
<1>8. Pass(w, pair)
        = [i \in 0 .. n |-> IF i = 0 THEN <<>> ELSE Joined(Pass(w, pair)[i - 1], w[i], pair)]
  BY <1>7 DEF Pass
<1>9. \A i \in 1 .. n : i # 0 /\ i \in 0 .. n
  BY <1>1
<1>10. 0 \in 0 .. n
  BY <1>1
<1>11. QED
  BY <1>8, <1>9, <1>10

LEMMA FrontIs ==
  ASSUME NEW E, NEW new \in Seq(E), new # <<>>
  PROVE  /\ Front(new) \in Seq(E) /\ Len(Front(new)) = Len(new) - 1
         /\ \A j \in 1 .. Len(new) - 1 : Front(new)[j] = new[j]
<1>1. Len(new) \in Nat \ {0} /\ Len(new) - 1 \in Nat /\ Len(new) - 1 <= Len(new)
  OBVIOUS
<1> DEFINE k == Len(new) - 1
<1>2. /\ SubSeq(new, 1, k) \in Seq(E) /\ Len(SubSeq(new, 1, k)) = k
      /\ \A j \in 1 .. k : SubSeq(new, 1, k)[j] = new[j]
  <2> HIDE DEF k
  <2>1. k \in Nat /\ k <= Len(new)
    BY <1>1 DEF k
  <2>2. QED
    BY <1>1, <2>1
<1>3. QED
  BY <1>2 DEF Front

(* A pair that a pass leaves: of the word, or with the merged symbol in it. *)
Left(q, w, pair) ==
  q # pair /\ (q \in PairsOf(w) \/ q[1] = Result(pair) \/ q[2] = Result(pair))

PassedOver(new, i, w, pair) ==
  /\ i = 0 => new = <<>>
  /\ i > 0 => new # <<>> /\ Last(new) \in {w[i], Result(pair)}
  /\ \A j \in 1 .. Len(new) - 1 : Left(<<new[j], new[j + 1]>>, w, pair)

LEMMA AppendKeeps ==
  ASSUME NEW E, NEW w \in Seq(E), NEW pair, NEW i \in 1 .. Len(w),
         NEW new \in Seq(E), PassedOver(new, i - 1, w, pair),
         ~ (new # <<>> /\ Last(new) = pair[1] /\ w[i] = pair[2])
  PROVE  PassedOver(Append(new, w[i]), i, w, pair)
<1> DEFINE s == w[i]
           n == Len(new)
           t == Append(new, s)
<1>1. /\ t \in Seq(E) /\ Len(t) = n + 1 /\ n \in Nat /\ t[n + 1] = s
      /\ \A j \in 1 .. n : t[j] = new[j]
  OBVIOUS
<1>2. t # <<>> /\ Last(t) = s
  BY <1>1 DEF Last
<1>3. ASSUME NEW j \in 1 .. n PROVE Left(<<t[j], t[j + 1]>>, w, pair)
  <2>1. CASE j # n
    <3>1. j \in 1 .. n - 1 /\ j + 1 \in 1 .. n
      BY <1>1, <2>1
    <3>2. t[j] = new[j] /\ t[j + 1] = new[j + 1]
      BY <1>1, <3>1
    <3>3. QED
      BY <3>1, <3>2 DEF PassedOver
  <2>2. CASE j = n
    <3>1. n > 0 /\ new # <<>>
      BY <1>1, <2>2
    <3>2. i - 1 > 0 /\ Last(new) \in {w[i - 1], Result(pair)}
      BY <3>1 DEF PassedOver
    <3>3. t[j] = Last(new) /\ t[j + 1] = s
      BY <1>1, <2>2 DEF Last
    <3>4. <<Last(new), s>> # pair
      BY <3>1
    <3>5. CASE Last(new) = w[i - 1]
      <4>1. i - 1 \in 1 .. Len(w) - 1 /\ (i - 1) + 1 = i
        BY <3>2
      <4>2. <<w[i - 1], w[(i - 1) + 1]>> \in PairsOf(w)
        BY <4>1 DEF PairsOf
      <4>3. <<Last(new), s>> \in PairsOf(w)
        BY <3>5, <4>1, <4>2
      <4>4. QED
        BY <3>3, <3>4, <4>3 DEF Left
    <3>6. CASE Last(new) = Result(pair)
      BY <3>3, <3>4, <3>6 DEF Left
    <3>7. QED
      BY <3>2, <3>5, <3>6
  <2>3. QED
    BY <2>1, <2>2
<1> HIDE DEF t, n
<1>4. Len(t) - 1 = n
  BY <1>1
<1>5. i # 0
  OBVIOUS
<1>6. PassedOver(t, i, w, pair)
  BY <1>2, <1>3, <1>4, <1>5 DEF PassedOver, s
<1>7. QED
  BY <1>6 DEF t

LEMMA MergeKeeps ==
  ASSUME NEW E, NEW w \in Seq(E), NEW pair, NEW i \in 1 .. Len(w),
         NEW new \in Seq(E), PassedOver(new, i - 1, w, pair),
         Result(pair) \in E, Result(pair) # pair[2], new # <<>>
  PROVE  PassedOver(Append(Front(new), Result(pair)), i, w, pair)
<1> DEFINE r == Result(pair)
           n == Len(new)
           t == Append(Front(new), r)
<1>1. n \in Nat \ {0}
  OBVIOUS
<1>2. /\ Front(new) \in Seq(E) /\ Len(Front(new)) = n - 1
      /\ \A j \in 1 .. n - 1 : Front(new)[j] = new[j]
  BY <1>1, FrontIs
<1>3. /\ t \in Seq(E) /\ Len(t) = n /\ t[n] = r
      /\ \A j \in 1 .. n - 1 : t[j] = new[j]
  BY <1>1, <1>2
<1>4. t # <<>> /\ Last(t) = r
  BY <1>1, <1>3 DEF Last
<1>5. ASSUME NEW j \in 1 .. n - 1 PROVE Left(<<t[j], t[j + 1]>>, w, pair)
  <2>1. CASE j # n - 1
    <3>1. j \in 1 .. n - 1 /\ j + 1 \in 1 .. n - 1
      BY <1>1, <2>1
    <3>2. t[j] = new[j] /\ t[j + 1] = new[j + 1]
      BY <1>3, <3>1
    <3>3. QED
      BY <3>1, <3>2 DEF PassedOver
  <2>2. CASE j = n - 1
    <3>1. t[j + 1] = r
      BY <1>1, <1>3, <2>2
    <3>2. <<t[j], r>> # pair
      OBVIOUS
    <3>3. QED
      BY <3>1, <3>2 DEF Left
  <2>3. QED
    BY <2>1, <2>2
<1> HIDE DEF t, n
<1>6. i # 0
  OBVIOUS
<1>7. PassedOver(t, i, w, pair)
  BY <1>3, <1>4, <1>5, <1>6 DEF PassedOver, r
<1>8. QED
  BY <1>7 DEF t, r

(* A pass leaves no pair of the kind it merges, and adds none but with the  *)
(* merged symbol in it.                                                    *)
LEMMA MergedLeaves ==
  ASSUME NEW E, NEW w \in Seq(E), NEW pair, Result(pair) \in E, Result(pair) # pair[2]
  PROVE  /\ Merged(w, pair) \in Seq(E)
         /\ \A q \in PairsOf(Merged(w, pair)) : Left(q, w, pair)
<1> DEFINE p == Pass(w, pair)
           n == Len(w)
           T == {i \in 0 .. n : p[i] \in Seq(E) /\ PassedOver(p[i], i, w, pair)}
<1>1. n \in Nat
  OBVIOUS
<1>2. p[0] = <<>> /\ \A i \in 1 .. n : p[i] = Joined(p[i - 1], w[i], pair)
  BY PassRuns
<1> HIDE DEF p
<1>3. 0 \in T
  <2>1. p[0] \in Seq(E) /\ Len(p[0]) = 0
    BY <1>2
  <2>2. PassedOver(p[0], 0, w, pair)
    BY <1>2, <2>1 DEF PassedOver
  <2>3. QED
    BY <1>1, <2>1, <2>2
<1>4. ASSUME NEW i \in 1 .. n, i - 1 \in T PROVE i \in T
  <2>1. p[i - 1] \in Seq(E) /\ PassedOver(p[i - 1], i - 1, w, pair)
    BY <1>4
  <2>2. p[i] = Joined(p[i - 1], w[i], pair) /\ w[i] \in E
    BY <1>2
  <2>3. p[i] \in Seq(E)
    BY <2>1, <2>2, JoinedType
  <2>4. PassedOver(p[i], i, w, pair)
    <3>1. CASE p[i - 1] # <<>> /\ Last(p[i - 1]) = pair[1] /\ w[i] = pair[2]
      <4>1. p[i] = Append(Front(p[i - 1]), Result(pair))
        BY <2>2, <3>1 DEF Joined
      <4>2. QED
        BY <2>1, <3>1, <4>1, MergeKeeps
    <3>2. CASE ~ (p[i - 1] # <<>> /\ Last(p[i - 1]) = pair[1] /\ w[i] = pair[2])
      <4>1. p[i] = Append(p[i - 1], w[i])
        BY <2>2, <3>2 DEF Joined
      <4>2. QED
        BY <2>1, <3>2, <4>1, AppendKeeps
    <3>3. QED
      BY <3>1, <3>2
  <2>5. QED
    BY <1>1, <2>3, <2>4
<1>5. n \in T
  <2> HIDE DEF T, n
  <2>1. \A i \in 1 .. n : i - 1 \in T => i \in T
    BY <1>4
  <2>2. 0 .. n \subseteq T
    BY <1>1, <1>3, <2>1, UpTo
  <2>3. QED
    BY <1>1, <2>2
<1>6. Merged(w, pair) = p[n]
  BY MergedIs DEF p
<1>7. \A q \in PairsOf(p[n]) : \E j \in 1 .. Len(p[n]) - 1 : q = <<p[n][j], p[n][j + 1]>>
  BY DEF PairsOf
<1>8. QED
  BY <1>5, <1>6, <1>7 DEF PassedOver

(* A pass for a pair that the word does not have leaves the word.            *)
LEMMA MergedSkips ==
  ASSUME NEW E, NEW w \in Seq(E), NEW pair, Result(pair) \in E,
         pair = <<pair[1], pair[2]>>, pair \notin PairsOf(w)
  PROVE  Merged(w, pair) = w
<1> DEFINE p == Pass(w, pair)
           n == Len(w)
           T == {i \in 0 .. n : p[i] = SubSeq(w, 1, i)}
<1>1. n \in Nat
  OBVIOUS
<1>2. p[0] = <<>> /\ \A i \in 1 .. n : p[i] = Joined(p[i - 1], w[i], pair)
  BY PassRuns
<1> HIDE DEF p
<1>3. p[0] = SubSeq(w, 1, 0) /\ 0 \in 0 .. n
  <2>1. SubSeq(w, 1, 0) = <<>>
    OBVIOUS
  <2>2. QED
    BY <1>1, <1>2, <2>1
<1>4. ASSUME NEW i \in 1 .. n, p[i - 1] = SubSeq(w, 1, i - 1)
      PROVE  p[i] = SubSeq(w, 1, i) /\ i \in 0 .. n
  <2> DEFINE new == SubSeq(w, 1, i - 1)
  <2>1. p[i] = Joined(new, w[i], pair) /\ i \in 0 .. n
    <3>1. p[i - 1] = new
      BY <1>4
    <3> HIDE DEF new
    <3>2. QED
      BY <1>1, <1>2, <3>1
  <2>2. /\ new \in Seq(E) /\ Len(new) = i - 1 /\ \A j \in 1 .. i - 1 : new[j] = w[j]
    BY <1>1
  <2>3. ~ (new # <<>> /\ Last(new) = pair[1] /\ w[i] = pair[2])
    <3>1. SUFFICES ASSUME new # <<>>, Last(new) = pair[1], w[i] = pair[2] PROVE FALSE
      OBVIOUS
    <3>2. i - 1 \in 1 .. Len(w) - 1 /\ (i - 1) + 1 = i
      BY <2>2, <3>1
    <3>3. Last(new) = w[i - 1]
      BY <2>2, <3>2 DEF Last
    <3>4. <<w[i - 1], w[(i - 1) + 1]>> \in PairsOf(w)
      BY <3>2 DEF PairsOf
    <3>5. <<pair[1], pair[2]>> \in PairsOf(w)
      BY <3>1, <3>2, <3>3, <3>4
    <3>6. QED
      BY <3>5
  <2>4. p[i] = Append(new, w[i])
    BY <2>1, <2>3 DEF Joined
  <2>5. Append(new, w[i]) = SubSeq(w, 1, i)
    <3>1. SubSeq(w, 1, i) \in Seq(E) /\ Len(SubSeq(w, 1, i)) = i
          /\ \A j \in 1 .. i : SubSeq(w, 1, i)[j] = w[j]
      BY <1>1
    <3>2. /\ Append(new, w[i]) \in Seq(E) /\ Len(Append(new, w[i])) = i
          /\ \A j \in 1 .. i : Append(new, w[i])[j] = w[j]
      <4> HIDE DEF new
      <4>1. w[i] \in E
        OBVIOUS
      <4>2. QED
        BY <2>2, <4>1
    <3> HIDE DEF new
    <3>3. QED
      BY <3>1, <3>2, SeqEqual
  <2>6. QED
    BY <2>1, <2>4, <2>5
<1>5. n \in T
  <2>1. 0 \in T
    BY <1>3
  <2>2. \A i \in 1 .. n : i - 1 \in T => i \in T
    BY <1>4
  <2> HIDE DEF T
  <2>3. QED
    BY <1>1, <2>1, <2>2, UpTo
<1>6. SubSeq(w, 1, n) = w
  OBVIOUS
<1>7. QED
  BY <1>5, <1>6, MergedIs DEF p

-----------------------------------------------------------------------------
(***************************************************************************)
(* The table of merges.                                                    *)
(***************************************************************************)

(* The symbol a merge makes is none of those that it or a better one takes. *)
LEMMA TableIs ==
  ASSUME merges \in MergeTables
  PROVE  /\ Len(merges) \in Nat
         /\ \A r \in 1 .. Len(merges) :
              /\ merges[r] = <<merges[r][1], merges[r][2]>>
              /\ Result(merges[r]) \in Encoder
              /\ \A j \in 1 .. r : /\ Result(merges[r]) # merges[j][1]
                                   /\ Result(merges[r]) # merges[j][2]
<1>1. merges \in Seq(AllSymbols \X AllSymbols) /\ WellFormed(merges)
  BY TokenizerAssumption
<1>2. Len(merges) \in Nat /\ \A r \in 1 .. Len(merges) : merges[r] \in AllSymbols \X AllSymbols
  BY <1>1
<1> DEFINE Known(r) == SingleSymbols \cup {Result(merges[j]) : j \in 1 .. r - 1}
<1>3. \A r \in 1 .. Len(merges) :
        merges[r][1] \in Known(r) /\ merges[r][2] \in Known(r) /\ Result(merges[r]) \notin Known(r)
  BY <1>1 DEF WellFormed
<1>4. ASSUME NEW r \in 1 .. Len(merges), NEW j \in 1 .. r
      PROVE  Known(j) \subseteq Known(r) /\ j \in 1 .. Len(merges)
  BY <1>2
<1>5. \A r \in 1 .. Len(merges) : merges[r] = <<merges[r][1], merges[r][2]>>
  BY <1>2
<1>6. \A r \in 1 .. Len(merges) : Result(merges[r]) \in Encoder
  BY DEF Encoder
<1> HIDE DEF Known
<1>7. ASSUME NEW r \in 1 .. Len(merges), NEW j \in 1 .. r
      PROVE  Result(merges[r]) # merges[j][1] /\ Result(merges[r]) # merges[j][2]
  BY <1>3, <1>4
<1>8. QED
  BY <1>2, <1>5, <1>6, <1>7

(* The pair merged is ranked, and none is ranked before it. *)
LEMMA BestIs ==
  ASSUME merges \in MergeTables, NEW w, Ranked(w) # {}
  PROVE  \E r \in Ranked(w) : BestPair(w) = merges[r] /\ \A j \in Ranked(w) : r <= j
<1>1. Ranked(w) \subseteq Nat
  BY TableIs DEF Ranked
<1>2. PICK r \in Ranked(w) : \A j \in Ranked(w) : <<j, r>> \notin Less
  <2>1. Ranked(w) \in SUBSET Nat
    BY <1>1
  <2>2. QED
    BY <2>1, LessWellFounded, WFMin
<1>3. ASSUME NEW j \in Ranked(w) PROVE r <= j
  <2>1. j \in Nat /\ r \in Nat /\ <<j, r>> \notin Less
    BY <1>1, <1>2
  <2>2. <<j, r>> \in Nat \X Nat /\ <<j, r>>[1] = j /\ <<j, r>>[2] = r
    BY <2>1
  <2>3. ~ (j < r)
    BY <2>1, <2>2 DEF Less
  <2>4. QED
    BY <2>1, <2>3
<1>4. Min(Ranked(w)) \in Ranked(w) /\ \A j \in Ranked(w) : Min(Ranked(w)) <= j
  BY <1>3 DEF Min
<1>5. QED
  BY <1>4 DEF BestPair

(* A round of merging leaves no pair up to the one it merged. *)
LEMMA RoundLeaves ==
  ASSUME merges \in MergeTables, NEW w \in Seq(Encoder), NEW r \in 1 .. Len(merges),
         \A j \in Ranked(w) : r <= j
  PROVE  /\ Merged(w, merges[r]) \in Seq(Encoder)
         /\ \A j \in Ranked(Merged(w, merges[r])) : r < j
<1> DEFINE pair == merges[r]
<1>1. /\ Len(merges) \in Nat /\ Result(pair) \in Encoder /\ r \in 1 .. r
      /\ \A j \in 1 .. r : Result(pair) # merges[j][1] /\ Result(pair) # merges[j][2]
  BY TableIs
<1>2. /\ Merged(w, pair) \in Seq(Encoder)
      /\ \A q \in PairsOf(Merged(w, pair)) : Left(q, w, pair)
  BY <1>1, MergedLeaves
<1>3. ASSUME NEW j \in Ranked(Merged(w, pair)) PROVE r < j
  <2>1. j \in 1 .. Len(merges) /\ Left(merges[j], w, pair)
    BY <1>2 DEF Ranked
  <2>2. SUFFICES ASSUME j <= r PROVE FALSE
    BY <1>1, <2>1
  <2>3. j \in 1 .. r
    BY <2>1, <2>2
  <2>4. merges[j] \in PairsOf(w) /\ merges[j] # pair
    BY <1>1, <2>1, <2>3 DEF Left
  <2>5. j \in Ranked(w)
    BY <2>1, <2>4 DEF Ranked
  <2>6. j = r
    BY <2>3, <2>5
  <2>7. QED
    BY <2>4, <2>6
<1>4. QED
  BY <1>2, <1>3

-----------------------------------------------------------------------------
(***************************************************************************)
(* Going through the table once.                                           *)
(***************************************************************************)

After(piece) ==
  CHOOSE h : h = [k \in 0 .. Len(merges) |->
                    IF k = 0 THEN Symbols(piece) ELSE Merged(h[k - 1], merges[k])]

LEMMA InRankOrderIs == \A piece : InRankOrder(piece) = After(piece)[Len(merges)]
BY DEF InRankOrder, After

Piece == Seq(Bytes) \ {<<>>}

LEMMA SymbolsType ==
  ASSUME NEW piece \in Piece
  PROVE  Symbols(piece) \in Seq(Encoder)
<1>1. Len(piece) \in Nat /\ \A i \in 1 .. Len(piece) : piece[i] \in Bytes
  BY DEF Piece
<1>2. \A i \in 1 .. Len(piece) : Symbols(piece)[i] \in Encoder
  BY <1>1 DEF Symbols, Encoder, SingleSymbols
<1>3. Symbols(piece)
        = [i \in 1 .. Len(piece) |->
             IF i = Len(piece) THEN <<piece[i], EndOfWord>> ELSE <<piece[i]>>]
  BY DEF Symbols
<1>4. Symbols(piece) \in [1 .. Len(piece) -> Encoder]
  BY <1>2, <1>3
<1>5. QED
  BY <1>1, <1>4

(* The word as it is when the table has been gone through up to k. *)
LEMMA AfterRuns ==
  ASSUME merges \in MergeTables, NEW piece \in Piece
  PROVE  /\ After(piece)[0] = Symbols(piece)
         /\ \A k \in 1 .. Len(merges) :
              After(piece)[k] = Merged(After(piece)[k - 1], merges[k])
         /\ \A k \in 0 .. Len(merges) : After(piece)[k] \in Seq(Encoder)
<1> DEFINE S == Seq(Encoder)
           n == Len(merges)
           f == [x \in S \X (1 .. n) |-> Merged(x[1], merges[x[2]])]
           first == Symbols(piece)
<1>1. n \in Nat /\ first \in S
  BY TableIs, SymbolsType
<1>2. \A w \in S, k \in 1 .. n : Merged(w, merges[k]) \in S
  <2>1. TAKE w \in S, k \in 1 .. n
  <2>2. Result(merges[k]) \in Encoder /\ Result(merges[k]) # merges[k][2]
    BY <1>1, TableIs
  <2>3. QED
    BY <2>2, MergedLeaves
<1>3. \A w \in S, k \in 1 .. n : f[<<w, k>>] = Merged(w, merges[k])
  OBVIOUS
<1> HIDE DEF f, S, first, n
<1>4. PICK h : Looped(h, S, first, f, n)
  <2>1. Turns(S, f, n)
    BY <1>2, <1>3 DEF Turns
  <2>2. QED
    BY <1>1, <2>1, LoopRuns
<1>5. /\ h \in [0 .. n -> S] /\ h[0] = first
      /\ \A k \in 1 .. n : h[k] = f[<<h[k - 1], k>>]
  BY <1>4 DEF Looped
<1>6. \A k \in 0 .. n : k = 0 \/ (k \in 1 .. n /\ k - 1 \in 0 .. n)
  BY <1>1
<1>7. h = [k \in 0 .. n |-> IF k = 0 THEN first ELSE Merged(h[k - 1], merges[k])]
  BY <1>3, <1>5, <1>6
<1>8. After(piece)
        = [k \in 0 .. n |-> IF k = 0 THEN first ELSE Merged(After(piece)[k - 1], merges[k])]
  BY <1>7 DEF After, n, first
<1> DEFINE a == After(piece)
<1> HIDE DEF a
<1>9. /\ a[0] = first
      /\ \A k \in 1 .. n : a[k] = Merged(a[k - 1], merges[k])
  BY <1>1, <1>8 DEF a
<1> DEFINE T == {k \in 0 .. n : a[k] \in S}
<1>10. 0 \in T
  BY <1>1, <1>9
<1>11. \A k \in 1 .. n : k - 1 \in T => k \in T
  BY <1>1, <1>2, <1>9
<1>12. 0 .. n \subseteq T
  <2> HIDE DEF T
  <2>1. QED
    BY <1>1, <1>10, <1>11, UpTo
<1>13. QED
  BY <1>9, <1>12 DEF a, n, S, first

(* Merges for which the word has no pair do not change it. *)
LEMMA NothingBetween ==
  ASSUME merges \in MergeTables, NEW piece \in Piece,
         NEW k \in 0 .. Len(merges), NEW m \in 0 .. Len(merges), k <= m,
         \A r \in Ranked(After(piece)[k]) : r <= k \/ m < r
  PROVE  After(piece)[m] = After(piece)[k]
<1> DEFINE a == After(piece)
           T == {i \in 0 .. m : k <= i => a[i] = a[k]}
<1>1. /\ \A i \in 1 .. Len(merges) : a[i] = Merged(a[i - 1], merges[i])
      /\ a[k] \in Seq(Encoder) /\ Len(merges) \in Nat
  BY AfterRuns, TableIs
<1> HIDE DEF a
<1>2. 0 \in T
  OBVIOUS
<1>3. ASSUME NEW i \in 1 .. m, i - 1 \in T PROVE i \in T
  <2>1. CASE i <= k
    BY <2>1
  <2>2. CASE ~ (i <= k)
    <3>1. k <= i - 1 /\ a[i - 1] = a[k] /\ i \in 1 .. Len(merges) /\ i <= m
      BY <1>1, <1>3, <2>2
    <3>2. i \notin Ranked(a[k])
      BY <2>2, <3>1 DEF a
    <3>3. merges[i] \notin PairsOf(a[k])
      BY <3>1, <3>2 DEF Ranked
    <3>4. /\ Result(merges[i]) \in Encoder
          /\ merges[i] = <<merges[i][1], merges[i][2]>>
      BY <3>1, TableIs
    <3>5. Merged(a[k], merges[i]) = a[k]
      BY <1>1, <3>3, <3>4, MergedSkips
    <3>6. QED
      BY <1>1, <3>1, <3>5
  <2>3. QED
    BY <2>1, <2>2
<1>4. 0 .. m \subseteq T
  <2>1. m \in Nat
    BY <1>1
  <2> HIDE DEF T
  <2>2. QED
    BY <1>2, <1>3, <2>1, UpTo
<1>5. m \in T
  BY <1>4
<1>6. QED
  BY <1>5 DEF a

(* The word is where going through the table has come to. *)
Reached(w, piece) ==
  \E k \in 0 .. Len(merges) : w = After(piece)[k] /\ \A r \in Ranked(w) : k < r

LEMMA ReachedAtFirst ==
  ASSUME merges \in MergeTables, NEW piece \in Piece
  PROVE  Reached(Symbols(piece), piece)
<1>1. 0 \in 0 .. Len(merges) /\ After(piece)[0] = Symbols(piece)
  BY AfterRuns, TableIs
<1>2. \A r \in Ranked(Symbols(piece)) : 0 < r
  BY TableIs DEF Ranked
<1>3. QED
  BY <1>1, <1>2 DEF Reached

LEMMA RoundReaches ==
  ASSUME merges \in MergeTables, NEW piece \in Piece, NEW w,
         Reached(w, piece), Ranked(w) # {}
  PROVE  Reached(NextWord(w), piece)
<1>1. PICK k \in 0 .. Len(merges) : w = After(piece)[k] /\ \A r \in Ranked(w) : k < r
  BY DEF Reached
<1>2. PICK r \in Ranked(w) : BestPair(w) = merges[r] /\ \A j \in Ranked(w) : r <= j
  BY BestIs
<1>3. r \in 1 .. Len(merges) /\ Len(merges) \in Nat /\ Ranked(w) \subseteq Nat
  BY TableIs DEF Ranked
<1>4. r - 1 \in 0 .. Len(merges) /\ k <= r - 1 /\ r \in 0 .. Len(merges)
  BY <1>1, <1>2, <1>3
<1>5. \A j \in Ranked(After(piece)[k]) : j <= k \/ r - 1 < j
  BY <1>1, <1>2, <1>3
<1>6. After(piece)[r - 1] = w
  BY <1>1, <1>4, <1>5, NothingBetween
<1>7. After(piece)[r] = Merged(w, merges[r]) /\ w \in Seq(Encoder)
  BY <1>1, <1>3, <1>6, AfterRuns
<1>8. NextWord(w) = After(piece)[r]
  BY <1>2, <1>7 DEF NextWord
<1>9. \A j \in Ranked(NextWord(w)) : r < j
  BY <1>2, <1>3, <1>7, <1>8, RoundLeaves
<1>10. QED
  BY <1>4, <1>8, <1>9 DEF Reached

LEMMA ReachedTheEnd ==
  ASSUME merges \in MergeTables, NEW piece \in Piece, NEW w,
         Reached(w, piece), Ranked(w) = {}
  PROVE  w = InRankOrder(piece) /\ w \in Seq(Encoder)
<1>1. PICK k \in 0 .. Len(merges) : w = After(piece)[k]
  BY DEF Reached
<1>2. Len(merges) \in 0 .. Len(merges) /\ k <= Len(merges)
  BY TableIs
<1>3. After(piece)[Len(merges)] = After(piece)[k]
  BY <1>1, <1>2, NothingBetween
<1>4. QED
  BY <1>1, <1>3, AfterRuns, InRankOrderIs

LEMMA InRankOrderType ==
  ASSUME merges \in MergeTables, NEW piece \in Piece
  PROVE  InRankOrder(piece) \in Seq(Encoder)
<1>1. Len(merges) \in 0 .. Len(merges)
  BY TableIs
<1>2. QED
  BY <1>1, AfterRuns, InRankOrderIs

-----------------------------------------------------------------------------
(***************************************************************************)
(* The pieces of a prompt.                                                 *)
(***************************************************************************)

Kinds == {"alpha", "digit", "space", "other"}

(* What has been split off: a piece that goes on is the last one. *)
SplitStates ==
  {s \in [pieces : Seq(Piece), last : Kinds] : s.last # "space" => s.pieces # <<>>}

NextSplit(before, c) ==
  LET kind == Kind(c)
  IN IF kind = "space" THEN [before EXCEPT !.last = "space"]
     ELSE IF kind = before.last
       THEN [before EXCEPT !.pieces = Append(Front(@), Append(Last(@), Lower(c)))]
       ELSE [pieces |-> Append(before.pieces, <<Lower(c)>>), last |-> kind]

Split(t) ==
  CHOOSE h : h = [i \in 0 .. Len(t) |->
                    IF i = 0 THEN [pieces |-> <<>>, last |-> "space"]
                    ELSE NextSplit(h[i - 1], t[i])]

LEMMA PiecesIs == \A t : Pieces(t) = Split(t)[Len(t)].pieces
BY DEF Pieces, Split, NextSplit

LEMMA KindIs ==
  ASSUME NEW c \in Chars
  PROVE  Kind(c) \in Kinds /\ (Kind(c) # "space" => c \in Bytes /\ Lower(c) \in Bytes)
<1>1. c \in Alpha \/ c \in Digits \/ c \in Space \/ c \in Other
  BY DEF Chars
<1>2. Kind(c) \in Kinds
  BY DEF Kind, Kinds
<1>3. Kind(c) # "space" => c \in Bytes
  BY <1>1 DEF Kind, Bytes
<1>4. QED
  BY <1>2, <1>3, TokenizerAssumption

LEMMA OneMore ==
  ASSUME NEW E, NEW q \in Seq(E), NEW x \in E
  PROVE  Append(q, x) \in Seq(E) /\ Append(q, x) # <<>>
<1>1. Append(q, x) \in Seq(E) /\ Len(Append(q, x)) = Len(q) + 1 /\ Len(q) \in Nat
  OBVIOUS
<1>2. Append(q, x) # <<>>
  BY <1>1
<1>3. QED
  BY <1>1, <1>2

LEMMA NextSplitType ==
  ASSUME NEW s \in SplitStates, NEW c \in Chars
  PROVE  NextSplit(s, c) \in SplitStates
<1>1. /\ s \in [pieces : Seq(Piece), last : Kinds] /\ s.pieces \in Seq(Piece)
      /\ s.last # "space" => s.pieces # <<>>
  BY DEF SplitStates
<1>2. CASE Kind(c) = "space"
  <2>1. [s EXCEPT !.last = "space"] \in SplitStates
    BY <1>1 DEF SplitStates, Kinds
  <2>2. QED
    BY <1>2, <2>1 DEF NextSplit
<1>3. CASE Kind(c) # "space" /\ Kind(c) = s.last
  <2> DEFINE ps == s.pieces
             longer == Append(Last(ps), Lower(c))
             more == Append(Front(ps), longer)
  <2>1. ps # <<>> /\ ps \in Seq(Piece) /\ Lower(c) \in Bytes
    BY <1>1, <1>3, KindIs
  <2>2. Last(ps) \in Piece
    BY <2>1 DEF Last
  <2>3. longer \in Piece
    <3>1. Last(ps) \in Seq(Bytes)
      BY <2>2 DEF Piece
    <3>2. longer \in Seq(Bytes) /\ longer # <<>>
      BY <2>1, <3>1
    <3>3. QED
      BY <3>2 DEF Piece
  <2> HIDE DEF longer
  <2>4. Front(ps) \in Seq(Piece)
    BY <2>1, FrontIs
  <2>5. more \in Seq(Piece) /\ more # <<>>
    BY <2>3, <2>4, OneMore
  <2> HIDE DEF more
  <2>6. [s EXCEPT !.pieces = more] \in SplitStates
    BY <1>1, <2>5 DEF SplitStates
  <2>7. NextSplit(s, c) = [s EXCEPT !.pieces = more]
    BY <1>3 DEF NextSplit, more, longer
  <2>8. QED
    BY <2>6, <2>7
<1>4. CASE Kind(c) # "space" /\ Kind(c) # s.last
  <2>1. Lower(c) \in Bytes /\ Kind(c) \in Kinds
    BY <1>4, KindIs
  <2> DEFINE new == <<Lower(c)>>
             ps == s.pieces
             more == Append(ps, new)
  <2>2. new \in Piece
    BY <2>1 DEF Piece
  <2>3. ps \in Seq(Piece)
    BY <1>1
  <2> HIDE DEF new, ps
  <2>4. more \in Seq(Piece) /\ more # <<>>
    BY <2>2, <2>3, OneMore
  <2>5. NextSplit(s, c) = [pieces |-> more, last |-> Kind(c)]
    BY <1>4 DEF NextSplit, new, ps
  <2> HIDE DEF more
  <2>6. [pieces |-> more, last |-> Kind(c)] \in SplitStates
    BY <2>1, <2>4 DEF SplitStates
  <2>7. QED
    BY <2>5, <2>6
<1>5. QED
  BY <1>2, <1>3, <1>4

LEMMA PiecesType ==
  ASSUME NEW t \in Seq(Chars)
  PROVE  Pieces(t) \in Seq(Piece)
<1> DEFINE n == Len(t)
           f == [x \in SplitStates \X (1 .. n) |-> NextSplit(x[1], t[x[2]])]
           first == [pieces |-> <<>>, last |-> "space"]
<1>1. n \in Nat /\ first \in SplitStates
  BY DEF SplitStates, Kinds
<1>2. \A s \in SplitStates, i \in 1 .. n : NextSplit(s, t[i]) \in SplitStates
  BY NextSplitType
<1>3. \A s \in SplitStates, i \in 1 .. n : f[<<s, i>>] = NextSplit(s, t[i])
  OBVIOUS
<1> HIDE DEF f, first, n
<1>4. PICK h : Looped(h, SplitStates, first, f, n)
  <2>1. Turns(SplitStates, f, n)
    BY <1>2, <1>3 DEF Turns
  <2>2. QED
    BY <1>1, <2>1, LoopRuns
<1>5. /\ h \in [0 .. n -> SplitStates] /\ h[0] = first
      /\ \A i \in 1 .. n : h[i] = f[<<h[i - 1], i>>]
  BY <1>4 DEF Looped
<1>6. \A i \in 0 .. n : i = 0 \/ (i \in 1 .. n /\ i - 1 \in 0 .. n)
  BY <1>1
<1>7. h = [i \in 0 .. n |-> IF i = 0 THEN first ELSE NextSplit(h[i - 1], t[i])]
  BY <1>3, <1>5, <1>6
<1> DEFINE a == Split(t)
<1>8. a = [i \in 0 .. n |-> IF i = 0 THEN first ELSE NextSplit(a[i - 1], t[i])]
  BY <1>7 DEF Split, n, first
<1> HIDE DEF a
<1>9. a[0] = first /\ \A i \in 1 .. n : a[i] = NextSplit(a[i - 1], t[i])
  BY <1>1, <1>8
<1> DEFINE T == {i \in 0 .. n : a[i] \in SplitStates}
<1>10. 0 \in T
  BY <1>1, <1>9
<1>11. \A i \in 1 .. n : i - 1 \in T => i \in T
  BY <1>1, <1>2, <1>9
<1>12. n \in T
  <2> HIDE DEF T
  <2>1. 0 .. n \subseteq T
    BY <1>1, <1>10, <1>11, UpTo
  <2>2. QED
    BY <1>1, <2>1
<1>13. a[n].pieces \in Seq(Piece)
  BY <1>12 DEF SplitStates
<1>14. QED
  BY <1>13, PiecesIs DEF a, n

-----------------------------------------------------------------------------
(***************************************************************************)
(* The tokens of a prompt.                                                 *)
(***************************************************************************)

Kept(symbols) ==
  CHOOSE h : h = [i \in 0 .. Len(symbols) |->
                    IF i = 0 THEN <<>>
                    ELSE IF symbols[i] \in Encoder THEN Append(h[i - 1], symbols[i])
                    ELSE h[i - 1]]

LEMMA EncodedIs == \A symbols : Encoded(symbols) = Kept(symbols)[Len(symbols)]
BY DEF Encoded, Kept

LEMMA AppendNext ==
  ASSUME NEW E, NEW s \in Seq(E), NEW i \in 1 .. Len(s)
  PROVE  Append(SubSeq(s, 1, i - 1), s[i]) = SubSeq(s, 1, i)
<1> DEFINE front == SubSeq(s, 1, i - 1)
           to == SubSeq(s, 1, i)
<1>1. /\ to \in Seq(E) /\ Len(to) = i /\ \A j \in 1 .. i : to[j] = s[j]
      /\ front \in Seq(E) /\ Len(front) = i - 1 /\ \A j \in 1 .. i - 1 : front[j] = s[j]
  OBVIOUS
<1>2. s[i] \in E
  OBVIOUS
<1> HIDE DEF front, to
<1>3. /\ Append(front, s[i]) \in Seq(E) /\ Len(Append(front, s[i])) = i
      /\ \A j \in 1 .. i : Append(front, s[i])[j] = s[j]
  BY <1>1, <1>2
<1>4. Append(front, s[i]) = to
  BY <1>1, <1>3, SeqEqual
<1>5. QED
  BY <1>4 DEF front, to

(* What merging has come to is all in the vocabulary: nothing is dropped. *)
LEMMA NothingDropped ==
  ASSUME NEW s \in Seq(Encoder)
  PROVE  Encoded(s) = s
<1> DEFINE n == Len(s)
           g == [i \in 0 .. n |-> SubSeq(s, 1, i)]
           a == Kept(s)
<1>1. n \in Nat /\ \A i \in 1 .. n : s[i] \in Encoder
  OBVIOUS
<1>2. SubSeq(s, 1, 0) = <<>> /\ SubSeq(s, 1, n) = s
  OBVIOUS
<1>3. \A i \in 1 .. n : Append(SubSeq(s, 1, i - 1), s[i]) = SubSeq(s, 1, i)
  BY AppendNext
<1>4. \A i \in 0 .. n : i = 0 \/ (i \in 1 .. n /\ i - 1 \in 0 .. n)
  BY <1>1
<1>5. /\ g[0] = <<>> /\ g[n] = s
      /\ \A i \in 1 .. n : g[i] = Append(g[i - 1], s[i])
      /\ g = [i \in 0 .. n |-> g[i]]
  BY <1>1, <1>2, <1>3
<1> HIDE DEF g
<1>6. g = [i \in 0 .. n |->
             IF i = 0 THEN <<>>
             ELSE IF s[i] \in Encoder THEN Append(g[i - 1], s[i])
             ELSE g[i - 1]]
  BY <1>1, <1>4, <1>5
<1>7. a = [i \in 0 .. n |->
             IF i = 0 THEN <<>>
             ELSE IF s[i] \in Encoder THEN Append(a[i - 1], s[i])
             ELSE a[i - 1]]
  BY <1>6 DEF Kept
<1> HIDE DEF a, n
<1>8. a[0] = <<>> /\ \A i \in 1 .. n : a[i] = Append(a[i - 1], s[i])
  <2>1. 0 \in 0 .. n /\ \A i \in 1 .. n : i # 0 /\ i \in 0 .. n /\ s[i] \in Encoder
    BY <1>1
  <2>2. QED
    BY <1>7, <2>1
<1> DEFINE T == {i \in 0 .. n : a[i] = g[i]}
<1>9. 0 \in T
  BY <1>1, <1>5, <1>8
<1>10. ASSUME NEW i \in 1 .. n, i - 1 \in T PROVE i \in T
  <2>1. a[i - 1] = g[i - 1] /\ i \in 0 .. n
    BY <1>1, <1>10
  <2>2. QED
    BY <1>5, <1>8, <2>1
<1>11. n \in T
  <2> HIDE DEF T
  <2>1. 0 .. n \subseteq T
    BY <1>1, <1>9, <1>10, UpTo
  <2>2. QED
    BY <1>1, <2>1
<1>12. QED
  BY <1>5, <1>11, EncodedIs DEF a, n

(* The tokens of the first n pieces. *)
Spelled(ps) ==
  CHOOSE h : h = [n \in 0 .. Len(ps) |->
                    IF n = 0 THEN <<>> ELSE h[n - 1] \o InRankOrder(ps[n])]

LEMMA WholePromptIs == WholePrompt = Spelled(Pieces(text))[Len(Pieces(text))]
BY DEF WholePrompt, Spelled

LEMMA SpelledRuns ==
  ASSUME merges \in MergeTables, NEW ps \in Seq(Piece)
  PROVE  /\ Spelled(ps)[0] = <<>>
         /\ \A i \in 1 .. Len(ps) : Spelled(ps)[i] = Spelled(ps)[i - 1] \o InRankOrder(ps[i])
         /\ \A i \in 0 .. Len(ps) : Spelled(ps)[i] \in Seq(Encoder)
<1> DEFINE S == Seq(Encoder)
           n == Len(ps)
           f == [x \in S \X (1 .. n) |-> x[1] \o InRankOrder(ps[x[2]])]
<1>1. n \in Nat /\ <<>> \in S
  OBVIOUS
<1>2. \A s \in S, i \in 1 .. n : s \o InRankOrder(ps[i]) \in S
  <2>1. TAKE s \in S, i \in 1 .. n
  <2>2. ps[i] \in Piece
    OBVIOUS
  <2>3. InRankOrder(ps[i]) \in S
    BY <2>2, InRankOrderType
  <2>4. QED
    BY <2>3
<1>3. \A s \in S, i \in 1 .. n : f[<<s, i>>] = s \o InRankOrder(ps[i])
  OBVIOUS
<1> HIDE DEF f, S, n
<1>4. PICK h : Looped(h, S, <<>>, f, n)
  <2>1. Turns(S, f, n)
    BY <1>2, <1>3 DEF Turns
  <2>2. QED
    BY <1>1, <2>1, LoopRuns
<1>5. /\ h \in [0 .. n -> S] /\ h[0] = <<>>
      /\ \A i \in 1 .. n : h[i] = f[<<h[i - 1], i>>]
  BY <1>4 DEF Looped
<1>6. \A i \in 0 .. n : i = 0 \/ (i \in 1 .. n /\ i - 1 \in 0 .. n)
  BY <1>1
<1>7. h = [i \in 0 .. n |-> IF i = 0 THEN <<>> ELSE h[i - 1] \o InRankOrder(ps[i])]
  BY <1>3, <1>5, <1>6
<1> DEFINE a == Spelled(ps)
<1>8. a = [i \in 0 .. n |-> IF i = 0 THEN <<>> ELSE a[i - 1] \o InRankOrder(ps[i])]
  BY <1>7 DEF Spelled, n
<1> HIDE DEF a
<1>9. a[0] = <<>> /\ \A i \in 1 .. n : a[i] = a[i - 1] \o InRankOrder(ps[i])
  BY <1>1, <1>8
<1> DEFINE T == {i \in 0 .. n : a[i] \in S}
<1>10. 0 \in T
  BY <1>1, <1>9
<1>11. ASSUME NEW i \in 1 .. n, i - 1 \in T PROVE i \in T
  <2>1. a[i - 1] \in S /\ i \in 0 .. n
    BY <1>1, <1>11
  <2>2. a[i - 1] \o InRankOrder(ps[i]) \in S
    BY <1>2, <2>1
  <2>3. QED
    BY <1>9, <2>1, <2>2
<1>12. 0 .. n \subseteq T
  <2> HIDE DEF T
  <2>1. QED
    BY <1>1, <1>10, <1>11, UpTo
<1>13. QED
  BY <1>9, <1>12 DEF a, n, S

-----------------------------------------------------------------------------
(***************************************************************************)
(* The frame.                                                              *)
(***************************************************************************)

Framed(whole) == Append(<<Sot>> \o whole, Eot)

LEMMA FramedIs ==
  ASSUME NEW E, Sot \in E, Eot \in E, NEW whole \in Seq(E)
  PROVE  /\ Framed(whole) \in Seq(E) /\ Len(Framed(whole)) = Len(whole) + 2
         /\ Framed(whole)[1] = Sot /\ Framed(whole)[Len(whole) + 2] = Eot
         /\ \A i \in 1 .. Len(whole) : Framed(whole)[i + 1] = whole[i]
<1> DEFINE n == Len(whole)
           front == <<Sot>> \o whole
<1>1. n \in Nat
  OBVIOUS
<1>2. /\ front \in Seq(E) /\ Len(front) = n + 1 /\ front[1] = Sot
      /\ \A i \in 1 .. n : front[i + 1] = whole[i]
  <2>1. <<Sot>> \in Seq(E) /\ Len(<<Sot>>) = 1 /\ <<Sot>>[1] = Sot
    OBVIOUS
  <2> DEFINE mark == <<Sot>>
  <2> HIDE DEF mark
  <2>2. /\ mark \o whole \in Seq(E) /\ Len(mark \o whole) = n + 1
        /\ (mark \o whole)[1] = mark[1]
        /\ \A i \in 1 .. n : (mark \o whole)[i + 1] = whole[i]
    BY <1>1, <2>1 DEF mark
  <2>3. QED
    BY <2>1, <2>2 DEF mark
<1> HIDE DEF front
<1>3. /\ Append(front, Eot) \in Seq(E) /\ Len(Append(front, Eot)) = n + 2
      /\ Append(front, Eot)[n + 2] = Eot
      /\ \A i \in 1 .. n + 1 : Append(front, Eot)[i] = front[i]
  BY <1>1, <1>2
<1>4. 1 \in 1 .. n + 1 /\ \A i \in 1 .. n : i + 1 \in 1 .. n + 1
  BY <1>1
<1> DEFINE all == Append(front, Eot)
<1>5. all = Framed(whole)
  BY DEF Framed, front
<1> HIDE DEF all
<1>6. /\ all \in Seq(E) /\ Len(all) = n + 2 /\ all[n + 2] = Eot
      /\ \A i \in 1 .. n + 1 : all[i] = front[i]
  BY <1>3 DEF all
<1>7. QED
  BY <1>2, <1>4, <1>5, <1>6

LEMMA Shifted ==
  ASSUME NEW E, NEW o \in Seq(E), NEW whole \in Seq(E), NEW k \in Nat,
         2 <= k, k <= Len(o), k - 2 <= Len(whole),
         \A i \in 1 .. k - 2 : o[i + 1] = whole[i]
  PROVE  SubSeq(o, 2, k - 1) = SubSeq(whole, 1, k - 2)
<1> DEFINE a == SubSeq(o, 2, k - 1)
           b == SubSeq(whole, 1, k - 2)
<1>1. /\ b \in Seq(E) /\ Len(b) = k - 2 /\ \A i \in 1 .. k - 2 : b[i] = whole[i]
  OBVIOUS
<1>2. /\ a \in Seq(E) /\ Len(a) = k - 2 /\ \A i \in 1 .. k - 2 : a[i] = o[i + 1]
  OBVIOUS
<1> HIDE DEF a, b
<1>3. a = b
  BY <1>1, <1>2, SeqEqual
<1>4. QED
  BY <1>3 DEF a, b

(* What is returned frames the tokens, whether they fit or not. *)
Frames(o, whole) ==
  \E k \in 2 .. ContextLength :
    /\ k = ContextLength \/ k = Len(whole) + 2
    /\ o[1] = Sot /\ o[k] = Eot
    /\ SubSeq(o, 2, k - 1) = SubSeq(whole, 1, k - 2)
    /\ k <= Len(whole) + 2
    /\ \A i \in k + 1 .. ContextLength : o[i] = Pad

LEMMA FittedIs ==
  ASSUME NEW E, Sot \in E, Eot \in E, NEW whole \in Seq(E),
         NEW k \in 2 .. ContextLength, k <= Len(whole) + 2,
         k = ContextLength \/ k = Len(whole) + 2
  PROVE  LET q == Fitted(Framed(whole))
         IN /\ Len(q) = k /\ q[1] = Sot /\ q[k] = Eot
            /\ \A i \in 1 .. k - 2 : q[i + 1] = whole[i]
            /\ \A i \in 1 .. k : q[i] \in E
<1> DEFINE n == Len(whole)
           s == Framed(whole)
           q == Fitted(s)
<1>1. /\ n \in Nat /\ k \in Nat /\ ContextLength \in Nat /\ 2 <= k /\ k <= ContextLength
  BY TokenizerAssumption
<1>2. /\ s \in Seq(E) /\ Len(s) = n + 2 /\ s[1] = Sot /\ s[n + 2] = Eot
      /\ \A i \in 1 .. n : s[i + 1] = whole[i]
  BY FramedIs
<1> HIDE DEF s, n
<1>3. CASE n + 2 <= ContextLength
  <2>1. k = n + 2
    BY <1>1, <1>3 DEF n
  <2>2. q = s
    BY <1>1, <1>2, <1>3 DEF Fitted, TooLong
  <2>3. \A i \in 1 .. k : s[i] \in E
    BY <1>1, <1>2, <2>1
  <2>4. k - 2 = n
    BY <1>1, <2>1
  <2>5. QED
    BY <1>2, <2>1, <2>2, <2>3, <2>4 DEF s
<1>4. CASE ~ (n + 2 <= ContextLength)
  <2>1. k = ContextLength
    BY <1>1, <1>4 DEF n
  <2>2. q = Append(SubSeq(s, 1, k - 1), Eot)
    BY <1>1, <1>2, <1>4, <2>1 DEF Fitted, TooLong, Cut
  <2> DEFINE head == SubSeq(s, 1, k - 1)
  <2>3. /\ head \in Seq(E) /\ Len(head) = k - 1
        /\ \A i \in 1 .. k - 1 : head[i] = s[i]
    BY <1>1, <1>2, <1>4, <2>1
  <2> HIDE DEF head
  <2> DEFINE all == Append(head, Eot)
  <2>4. /\ all \in Seq(E) /\ Len(all) = k /\ all[k] = Eot
        /\ \A i \in 1 .. k - 1 : all[i] = s[i]
    BY <1>1, <2>3
  <2>5. q = all
    BY <2>2 DEF head
  <2> HIDE DEF all
  <2>6. \A i \in 1 .. k - 2 : i + 1 \in 1 .. k - 1 /\ i \in 1 .. n
    BY <1>1, <1>4, <2>1
  <2>7. \A i \in 1 .. k : all[i] \in E
    BY <1>1, <2>4
  <2>8. 1 \in 1 .. k - 1
    BY <1>1
  <2> HIDE DEF q
  <2>9. /\ Len(q) = k /\ q[1] = Sot /\ q[k] = Eot
        /\ \A i \in 1 .. k - 2 : q[i + 1] = whole[i]
        /\ \A i \in 1 .. k : q[i] \in E
    BY <1>2, <2>4, <2>5, <2>6, <2>7, <2>8
  <2>10. QED
    BY <2>9 DEF q, s
<1>5. QED
  BY <1>3, <1>4

LEMMA ReturnedFrames ==
  ASSUME NEW E, Sot \in E, Eot \in E, Pad \in E, NEW whole \in Seq(E)
  PROVE  Frames(Padded(Fitted(Framed(whole))), whole)
<1> DEFINE n == Len(whole)
           q == Fitted(Framed(whole))
           o == Padded(q)
           k == IF n + 2 <= ContextLength THEN n + 2 ELSE ContextLength
<1>1. n \in Nat /\ ContextLength \in Nat /\ 2 <= ContextLength
  BY TokenizerAssumption
<1>2. /\ k \in 2 .. ContextLength /\ k <= n + 2 /\ (k = ContextLength \/ k = n + 2)
      /\ k \in Nat /\ 2 <= k /\ k <= ContextLength
  BY <1>1
<1> HIDE DEF k
<1>3. /\ Len(q) = k /\ q[1] = Sot /\ q[k] = Eot
      /\ \A i \in 1 .. k - 2 : q[i + 1] = whole[i]
      /\ \A i \in 1 .. k : q[i] \in E
  BY <1>2, FittedIs
<1> HIDE DEF q
<1>4. o = [i \in 1 .. ContextLength |-> IF i <= k THEN q[i] ELSE Pad]
  BY <1>3 DEF Padded
<1> HIDE DEF o
<1>5. /\ \A i \in 1 .. k : o[i] = q[i]
      /\ \A i \in k + 1 .. ContextLength : o[i] = Pad
  BY <1>1, <1>2, <1>4
<1>6. \A i \in 1 .. ContextLength : o[i] \in E
  BY <1>1, <1>2, <1>3, <1>4
<1>7. o \in Seq(E) /\ Len(o) = ContextLength
  <2>1. o \in [1 .. ContextLength -> E]
    BY <1>4, <1>6
  <2>2. QED
    BY <1>1, <2>1
<1>8. 1 \in 1 .. k /\ k \in 1 .. k /\ \A i \in 1 .. k - 2 : i + 1 \in 1 .. k
  BY <1>2
<1>9. o[1] = Sot /\ o[k] = Eot /\ \A i \in 1 .. k - 2 : o[i + 1] = whole[i]
  BY <1>3, <1>5, <1>8
<1>10. k - 2 <= n
  BY <1>1, <1>2
<1>11. SubSeq(o, 2, k - 1) = SubSeq(whole, 1, k - 2)
  BY <1>2, <1>7, <1>9, <1>10, Shifted
<1>12. Frames(o, whole)
  BY <1>2, <1>5, <1>9, <1>11 DEF Frames
<1>13. QED
  BY <1>12 DEF o, q

-----------------------------------------------------------------------------
(***************************************************************************)
(* The calls on one tokenizer.                                             *)
(***************************************************************************)

(* The tokens are those of the pieces gone through, and unread has the rest. *)
Begun ==
  LET ps == Pieces(text)
  IN \E n \in 0 .. Len(ps) :
       unread = SubSeq(ps, n + 1, Len(ps)) /\ ids = <<Sot>> \o Spelled(ps)[n]

TInv ==
  /\ merges \in MergeTables
  /\ text \in Seq(Chars)
  /\ DOMAIN cache \subseteq Piece
  /\ CacheIsInRankOrder
  /\ stage # "idle" => Begun
  /\ stage = "merge" => unread # <<>> /\ Reached(word, Head(unread))
  /\ stage = "idle" /\ calls > 0 => out = Padded(Fitted(Framed(WholePrompt)))

(* What the table and the prompt determine stays while they do. *)
LEMMA OrderStays ==
  ASSUME merges' = merges
  PROVE  /\ \A p : InRankOrder(p)' = InRankOrder(p)
         /\ \A p, w : Reached(w, p)' = Reached(w, p)
<1>1. ASSUME NEW p PROVE InRankOrder(p)' = InRankOrder(p)
  BY DEF InRankOrder, Merged, Symbols, Result
<1>2. ASSUME NEW p, NEW w PROVE Reached(w, p)' = Reached(w, p)
  BY DEF Reached, After, Ranked, PairsOf, Merged, Symbols, Result
<1>3. QED
  BY <1>1, <1>2

LEMMA TokensStay ==
  ASSUME merges' = merges, NEW ps
  PROVE  Spelled(ps)' = Spelled(ps)
BY DEF Spelled, InRankOrder, Merged, Symbols, Result

LEMMA PromptStays ==
  ASSUME merges' = merges, text' = text
  PROVE  WholePrompt' = WholePrompt
BY DEF WholePrompt, Pieces, Kind, InRankOrder, Merged, Symbols, Result

LEMMA PiecesStay ==
  ASSUME text' = text
  PROVE  Pieces(text)' = Pieces(text)
BY DEF Pieces, Kind

LEMMA BegunStays ==
  ASSUME merges' = merges, text' = text, unread' = unread, ids' = ids, Begun
  PROVE  Begun'
<1> DEFINE ps == Pieces(text)
           sp == Spelled(ps)
<1>1. ps' = ps
  BY PiecesStay
<1> HIDE DEF ps
<1>2. sp' = sp
  BY <1>1, TokensStay
<1>3. QED
  BY <1>1, <1>2 DEF Begun, ps, sp

(* The cache of a state whose cache and table are the same is as right. *)
LEMMA CacheStays ==
  ASSUME merges' = merges, cache' = cache, CacheIsInRankOrder
  PROVE  CacheIsInRankOrder'
BY OrderStays DEF CacheIsInRankOrder

(* One more piece is gone through. *)
LEMMA OnePieceOn ==
  ASSUME TInv, Begun, unread # <<>>, merges' = merges, text' = text,
         NEW symbols, symbols = InRankOrder(Head(unread)),
         ids' = ids \o Encoded(symbols), unread' = Tail(unread)
  PROVE  Begun'
<1> DEFINE ps == Pieces(text)
           m == Len(ps)
<1>1. ps \in Seq(Piece) /\ m \in Nat
  BY PiecesType DEF TInv
<1>2. PICK n \in 0 .. m : unread = SubSeq(ps, n + 1, m) /\ ids = <<Sot>> \o Spelled(ps)[n]
  BY DEF Begun
<1> DEFINE sp == Spelled(ps)
<1>3. ps' = ps
  BY PiecesStay
<1>4. sp' = sp
  BY <1>3, TokensStay
<1>5. /\ \A i \in 1 .. m : sp[i] = sp[i - 1] \o InRankOrder(ps[i])
      /\ \A i \in 0 .. m : sp[i] \in Seq(Encoder)
  BY <1>1, SpelledRuns DEF TInv
<1>6. \A i \in 1 .. m : ps[i] \in Piece
  BY <1>1
<1> HIDE DEF ps, sp, m
<1>7. n < m /\ Head(unread) = ps[n + 1] /\ Tail(unread) = SubSeq(ps, (n + 1) + 1, m)
  <2>1. n < m
    BY <1>1, <1>2 DEF m
  <2> DEFINE rest == SubSeq(ps, n + 1, m)
             less == SubSeq(ps, (n + 1) + 1, m)
  <2>2. /\ rest \in Seq(Piece) /\ Len(rest) = m - n
        /\ \A i \in 1 .. m - n : rest[i] = ps[n + i]
    BY <1>1, <2>1 DEF m
  <2>3. /\ less \in Seq(Piece) /\ Len(less) = m - n - 1
        /\ \A i \in 1 .. m - n - 1 : less[i] = ps[n + 1 + i]
    BY <1>1, <2>1 DEF m
  <2> HIDE DEF rest, less
  <2>4. rest # <<>> /\ Head(rest) = ps[n + 1]
    BY <1>1, <2>1, <2>2
  <2>5. /\ Tail(rest) \in Seq(Piece) /\ Len(Tail(rest)) = m - n - 1
        /\ \A i \in 1 .. m - n - 1 : Tail(rest)[i] = rest[i + 1]
    BY <1>1, <2>1, <2>2, <2>4
  <2>6. \A i \in 1 .. m - n - 1 : rest[i + 1] = ps[n + 1 + i]
    BY <1>1, <2>1, <2>2
  <2>7. Tail(rest) = less
    BY <2>3, <2>5, <2>6, SeqEqual
  <2>8. QED
    BY <1>2, <2>1, <2>4, <2>7 DEF rest, less
<1>8. n + 1 \in 1 .. m /\ n + 1 \in 0 .. m /\ (n + 1) - 1 = n
  BY <1>1, <1>7
<1> DEFINE new == InRankOrder(ps[n + 1])
<1>9. new \in Seq(Encoder)
  BY <1>6, <1>8, InRankOrderType DEF TInv
<1>10. Encoded(symbols) = new
  BY <1>7, <1>9, NothingDropped
<1> HIDE DEF new
<1>11. (<<Sot>> \o sp[n]) \o new = <<Sot>> \o (sp[n] \o new)
  <2> DEFINE E == Encoder \cup {Sot}
             mark == <<Sot>>
             a == sp[n]
  <2>1. mark \in Seq(E)
    OBVIOUS
  <2>2. a \in Seq(Encoder) /\ Encoder \subseteq E
    BY <1>5
  <2>3. a \in Seq(E) /\ new \in Seq(E)
    BY <1>9, <2>2
  <2> HIDE DEF E, mark, a
  <2>4. (mark \o a) \o new = mark \o (a \o new)
    BY <2>1, <2>3, ConcatAssociative
  <2>5. QED
    BY <2>4 DEF mark, a
<1>12. sp[n + 1] = sp[n] \o new
  BY <1>5, <1>8 DEF new
<1>13. ids' = <<Sot>> \o sp[n + 1]
  BY <1>2, <1>10, <1>11, <1>12 DEF sp
<1>14. unread' = SubSeq(ps, (n + 1) + 1, m)
  BY <1>7
<1>15. m' = m
  BY <1>3 DEF m
<1>16. unread' = SubSeq(ps', (n + 1) + 1, m') /\ ids' = <<Sot>> \o sp'[n + 1] /\ n + 1 \in 0 .. m'
  BY <1>3, <1>4, <1>8, <1>13, <1>14, <1>15
<1>17. QED
  BY <1>16 DEF Begun, ps, sp, m

(* All pieces are gone through: the tokens are those of the prompt. *)
LEMMA AllSpelled ==
  ASSUME TInv, Begun, unread = <<>>
  PROVE  ids = <<Sot>> \o WholePrompt
<1> DEFINE ps == Pieces(text)
           m == Len(ps)
<1>1. ps \in Seq(Piece) /\ m \in Nat
  BY PiecesType DEF TInv
<1>2. PICK n \in 0 .. m : unread = SubSeq(ps, n + 1, m) /\ ids = <<Sot>> \o Spelled(ps)[n]
  BY DEF Begun
<1> HIDE DEF ps
<1>3. n = m
  <2>1. SUFFICES ASSUME n < m PROVE FALSE
    BY <1>1
  <2> DEFINE rest == SubSeq(ps, n + 1, m)
  <2>2. Len(rest) = m - n
    BY <1>1, <2>1
  <2>3. rest = <<>>
    BY <1>2
  <2> HIDE DEF rest
  <2>4. Len(rest) = 0
    BY <2>3
  <2>5. m - n > 0
    BY <1>1, <2>1
  <2>6. QED
    BY <2>2, <2>4, <2>5
<1>4. QED
  BY <1>2, <1>3, WholePromptIs DEF ps

LEMMA HeadIsPiece ==
  ASSUME TInv, Begun, unread # <<>>
  PROVE  Head(unread) \in Piece
<1> DEFINE ps == Pieces(text)
           m == Len(ps)
<1>1. ps \in Seq(Piece) /\ m \in Nat
  BY PiecesType DEF TInv
<1>2. PICK n \in 0 .. m : unread = SubSeq(ps, n + 1, m)
  BY DEF Begun
<1> HIDE DEF ps
<1>3. unread \in Seq(Piece)
  BY <1>1, <1>2
<1>4. QED
  BY <1>3

LEMMA PromptType ==
  ASSUME merges \in MergeTables, text \in Seq(Chars)
  PROVE  WholePrompt \in Seq(Encoder)
<1> DEFINE ps == Pieces(text)
<1>1. ps \in Seq(Piece)
  BY PiecesType
<1> HIDE DEF ps
<1>2. Len(ps) \in 0 .. Len(ps)
  BY <1>1
<1>3. Spelled(ps)[Len(ps)] \in Seq(Encoder)
  BY <1>1, <1>2, SpelledRuns
<1>4. QED
  BY <1>3, WholePromptIs DEF ps

LEMMA TInvInit == TokenizerInit => TInv
<1>1. SUFFICES ASSUME TokenizerInit PROVE TInv
  OBVIOUS
<1>2. stage = "idle" /\ merges \in MergeTables /\ text = <<>> /\ calls = 0 /\ DOMAIN cache = {}
  BY <1>1 DEF TokenizerInit
<1>3. text \in Seq(Chars)
  BY <1>2
<1>4. CacheIsInRankOrder
  BY <1>2 DEF CacheIsInRankOrder
<1>5. QED
  BY <1>2, <1>3, <1>4 DEF TInv

LEMMA PiecesBegin ==
  ASSUME NEW t, text' = t
  PROVE  Pieces(text)' = Pieces(t)
BY DEF Pieces, Kind

LEMMA TokenizeKeeps ==
  ASSUME TInv, NEW t \in Texts, Tokenize(t)
  PROVE  TInv'
<1>1. /\ merges' = merges /\ cache' = cache /\ text' = t /\ stage' = "piece"
      /\ unread' = Pieces(t) /\ ids' = <<Sot>>
  BY DEF Tokenize
<1>2. t \in Seq(Chars)
  BY TokenizerAssumption
<1>3. CacheIsInRankOrder'
  BY <1>1, CacheStays DEF TInv
<1> DEFINE ps == Pieces(t)
           m == Len(ps)
           sp == Spelled(ps)
<1>4. Pieces(text)' = ps
  BY <1>1, PiecesBegin
<1>5. ps \in Seq(Piece) /\ m \in Nat
  BY <1>2, PiecesType
<1> HIDE DEF ps, m
<1>6. sp' = sp
  BY <1>1, TokensStay
<1>7. sp[0] = <<>>
  BY <1>5, SpelledRuns DEF TInv
<1>8. <<Sot>> \o <<>> = <<Sot>>
  OBVIOUS
<1>9. SubSeq(ps, 0 + 1, m) = ps /\ 0 \in 0 .. m
  BY <1>5 DEF m
<1>10. unread' = SubSeq(ps, 0 + 1, m) /\ ids' = <<Sot>> \o sp'[0]
  BY <1>1, <1>6, <1>7, <1>8, <1>9 DEF ps
<1> HIDE DEF sp
<1>11. Spelled(Pieces(text))' = sp'
  BY <1>1, <1>4, TokensStay DEF sp
<1>12. Begun'
  BY <1>4, <1>9, <1>10, <1>11 DEF Begun, m
<1>13. QED
  BY <1>1, <1>2, <1>3, <1>12 DEF TInv

LEMMA CacheHitKeeps ==
  ASSUME TInv, CacheHit
  PROVE  TInv'
<1> DEFINE piece == Head(unread)
           symbols == cache[piece]
<1>1. /\ stage = "piece" /\ unread # <<>> /\ piece \in DOMAIN cache
      /\ ids' = ids \o Encoded(symbols) /\ unread' = Tail(unread)
      /\ stage' = stage /\ merges' = merges /\ text' = text /\ cache' = cache
  BY DEF CacheHit
<1>2. symbols = InRankOrder(Head(unread))
  BY <1>1 DEF TInv, CacheIsInRankOrder
<1>3. Begun
  BY <1>1 DEF TInv
<1> HIDE DEF symbols
<1>4. Begun'
  BY <1>1, <1>2, <1>3, OnePieceOn
<1>5. CacheIsInRankOrder'
  BY <1>1, CacheStays DEF TInv
<1>6. QED
  BY <1>1, <1>4, <1>5 DEF TInv

LEMMA CacheMissKeeps ==
  ASSUME TInv, CacheMiss
  PROVE  TInv'
<1>1. /\ stage = "piece" /\ unread # <<>> /\ word' = Symbols(Head(unread)) /\ stage' = "merge"
      /\ merges' = merges /\ text' = text /\ unread' = unread /\ ids' = ids /\ cache' = cache
  BY DEF CacheMiss
<1>2. Begun
  BY <1>1 DEF TInv
<1>3. Begun'
  BY <1>1, <1>2, BegunStays
<1>4. CacheIsInRankOrder'
  BY <1>1, CacheStays DEF TInv
<1> DEFINE piece == Head(unread)
           w == Symbols(piece)
<1>5. Reached(w, piece)
  BY <1>1, <1>2, HeadIsPiece, ReachedAtFirst DEF TInv
<1>6. word' = w /\ piece' = piece
  BY <1>1
<1> HIDE DEF piece, w
<1>7. Reached(word, piece)'
  BY <1>1, <1>5, <1>6, OrderStays
<1>8. QED
  BY <1>1, <1>3, <1>4, <1>7 DEF TInv, piece

LEMMA MergeRoundKeeps ==
  ASSUME TInv, MergeRound
  PROVE  TInv'
<1>1. /\ stage = "merge" /\ Ranked(word) # {} /\ word' = NextWord(word) /\ stage' = stage
      /\ merges' = merges /\ text' = text /\ unread' = unread /\ ids' = ids /\ cache' = cache
  BY DEF MergeRound
<1>2. Begun /\ unread # <<>> /\ Reached(word, Head(unread))
  BY <1>1 DEF TInv
<1>3. Begun'
  BY <1>1, <1>2, BegunStays
<1>4. CacheIsInRankOrder'
  BY <1>1, CacheStays DEF TInv
<1> DEFINE piece == Head(unread)
           w == NextWord(word)
<1>5. Reached(w, piece)
  BY <1>1, <1>2, HeadIsPiece, RoundReaches DEF TInv
<1>6. word' = w /\ piece' = piece
  BY <1>1
<1> HIDE DEF piece, w
<1>7. Reached(word, piece)'
  BY <1>1, <1>5, <1>6, OrderStays
<1>8. QED
  BY <1>1, <1>2, <1>3, <1>4, <1>7 DEF TInv, piece

LEMMA MergeDoneKeeps ==
  ASSUME TInv, MergeDone
  PROVE  TInv'
<1> DEFINE piece == Head(unread)
<1>1. /\ stage = "merge" /\ Ranked(word) = {}
      /\ cache' = [p \in DOMAIN cache \cup {piece} |-> IF p = piece THEN word ELSE cache[p]]
      /\ ids' = ids \o Encoded(word) /\ unread' = Tail(unread)
      /\ stage' = "piece" /\ merges' = merges /\ text' = text
  BY DEF MergeDone
<1>2. Begun /\ unread # <<>> /\ Reached(word, piece)
  BY <1>1 DEF TInv
<1>3. piece \in Piece
  BY <1>2, HeadIsPiece
<1>4. word = InRankOrder(piece)
  BY <1>1, <1>2, <1>3, ReachedTheEnd DEF TInv
<1>5. Begun'
  BY <1>1, <1>2, <1>4, OnePieceOn
<1> HIDE DEF piece
<1>6. DOMAIN cache' = DOMAIN cache \cup {piece}
  BY <1>1
<1>7. \A p \in DOMAIN cache' : cache'[p] = InRankOrder(p)
  BY <1>1, <1>4, <1>6 DEF TInv, CacheIsInRankOrder
<1>8. CacheIsInRankOrder'
  BY <1>1, <1>7, OrderStays DEF CacheIsInRankOrder
<1>9. (DOMAIN cache)' \subseteq Piece
  BY <1>3, <1>6 DEF TInv
<1>10. QED
  BY <1>1, <1>5, <1>8, <1>9 DEF TInv

LEMMA ReturnKeeps ==
  ASSUME TInv, Return
  PROVE  TInv'
<1>1. /\ stage = "piece" /\ unread = <<>> /\ out' = Padded(Fitted(Append(ids, Eot)))
      /\ stage' = "idle" /\ merges' = merges /\ text' = text /\ cache' = cache
  BY DEF Return
<1>2. Begun
  BY <1>1 DEF TInv
<1>3. out' = Padded(Fitted(Framed(WholePrompt)))
  BY <1>1, <1>2, AllSpelled DEF Framed
<1>4. WholePrompt' = WholePrompt
  BY <1>1, PromptStays
<1>5. CacheIsInRankOrder'
  BY <1>1, CacheStays DEF TInv
<1> DEFINE whole == WholePrompt
<1>6. out' = Padded(Fitted(Framed(whole')))
  BY <1>3, <1>4
<1>7. QED
  BY <1>1, <1>5, <1>6 DEF TInv, Padded, Fitted, Framed, TooLong, Cut

LEMMA IdleKeeps ==
  ASSUME TInv, UNCHANGED tokenizerVars
  PROVE  TInv'
<1>1. /\ stage' = stage /\ merges' = merges /\ text' = text /\ unread' = unread /\ word' = word
      /\ ids' = ids /\ cache' = cache /\ out' = out /\ calls' = calls
  BY DEF tokenizerVars
<1>2. stage # "idle" => Begun'
  BY <1>1, BegunStays DEF TInv
<1>3. CacheIsInRankOrder'
  BY <1>1, CacheStays DEF TInv
<1>4. stage = "merge" => Reached(word, Head(unread))'
  BY <1>1, OrderStays DEF TInv
<1>5. WholePrompt' = WholePrompt
  BY <1>1, PromptStays
<1> DEFINE whole == WholePrompt
<1>6. stage = "idle" /\ calls > 0 => out = Padded(Fitted(Framed(whole')))
  BY <1>5 DEF TInv
<1>7. QED
  BY <1>1, <1>2, <1>3, <1>4, <1>6 DEF TInv, Padded, Fitted, Framed, TooLong, Cut

LEMMA TInvStep == TInv /\ [TokenizerNext]_tokenizerVars => TInv'
<1>1. SUFFICES ASSUME TInv, [TokenizerNext]_tokenizerVars PROVE TInv'
  OBVIOUS
<1>2. CASE \E t \in Texts : Tokenize(t)
  BY <1>1, <1>2, TokenizeKeeps
<1>3. CASE CacheHit
  BY <1>1, <1>3, CacheHitKeeps
<1>4. CASE CacheMiss
  BY <1>1, <1>4, CacheMissKeeps
<1>5. CASE MergeRound
  BY <1>1, <1>5, MergeRoundKeeps
<1>6. CASE MergeDone
  BY <1>1, <1>6, MergeDoneKeeps
<1>7. CASE Return
  BY <1>1, <1>7, ReturnKeeps
<1>8. CASE CallsSpent \/ UNCHANGED tokenizerVars
  BY <1>1, <1>8, IdleKeeps DEF CallsSpent
<1>9. QED
  BY <1>1, <1>2, <1>3, <1>4, <1>5, <1>6, <1>7, <1>8 DEF TokenizerNext

LEMMA TInvAlways == TokenizerSpec => []TInv
BY TInvInit, TInvStep, PTL DEF TokenizerSpec

(* What any call leaves in the cache for the others is the encoding of the  *)
(* piece that applies every merge of the table once, in the order of ranks, *)
(* though tokenize only looks for the best pair of the word.                *)
THEOREM CacheAlwaysInRankOrder == TokenizerSpec => []CacheIsInRankOrder
<1>1. TInv => CacheIsInRankOrder
  BY DEF TInv
<1>2. QED
  BY <1>1, TInvAlways, PTL

(* Whatever the prompt and its length, what tokenize returns has it between *)
(* the two marks, whole or its head, and nothing but padding after them.    *)
THEOREM PromptAlwaysFramed == TokenizerSpec => []FramesThePrompt
<1>1. TInv => FramesThePrompt
  <2>1. SUFFICES ASSUME TInv, stage = "idle", calls > 0
                 PROVE  Frames(out, WholePrompt)
    BY DEF FramesThePrompt, Frames
  <2> DEFINE E == Encoder \cup {Sot, Eot, Pad}
             whole == WholePrompt
  <2>2. whole \in Seq(Encoder) /\ Encoder \subseteq E
    BY <2>1, PromptType DEF TInv
  <2>3. Sot \in E /\ Eot \in E /\ Pad \in E
    OBVIOUS
  <2> HIDE DEF E
  <2>4. whole \in Seq(E)
    BY <2>2
  <2>5. out = Padded(Fitted(Framed(whole)))
    BY <2>1 DEF TInv
  <2> HIDE DEF whole
  <2>6. Frames(out, whole)
    BY <2>3, <2>4, <2>5, ReturnedFrames
  <2>7. QED
    BY <2>6 DEF whole
<1>2. QED
  BY <1>1, TInvAlways, PTL
=============================================================================
