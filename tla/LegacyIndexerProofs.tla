-------------------------- MODULE LegacyIndexerProofs --------------------------
(***************************************************************************)
(* Theorems of the stand-alone importer and the tagger, for any files,     *)
(* places, categories, importer processes and taggers: types, and manual   *)
(* categories that no import overwrites as long as no row is tagged while  *)
(* an import works on its file.                                            *)
(*                                                                         *)
(* An import decides on the row it has read and writes later, so what it   *)
(* has read must still be true of a manual row: ReadOK.  A run that has    *)
(* decided to assign a category has not read a manual one.                 *)
(***************************************************************************)
EXTENDS LegacyIndexer, TLAPS

USE DEF LegacyAssumption

(* A tagged row has a category. *)
TaggedOK == \A f \in Files : row[f].by = "Manual" => row[f].category # None

(* A run asks for an address of a place; when it is to decide it knows of a
   manual category, and when it has decided to assign another it read none. *)
Locating(w) == w.step = "Locate" => w.seen.place \in Places
Deciding(w) ==
  w.step \in {"Infer", "Assign"} =>
    (row[w.file].by = "Manual" => w.seen.by = "Manual" /\ w.seen.category # None)
Assigning(w) ==
  w.step = "Assign" =>
    /\ ~(w.seen.by = "Manual" /\ w.seen.category # None)
    /\ w.assignment \in Assignment /\ w.assignment.by # "Manual"

WorkOK(w) == Locating(w) /\ Deciding(w) /\ Assigning(w)

ReadOK == \A r \in Runs : run[r] # None => WorkOK(run[r])

LegacyInv == TypeOK /\ TaggedOK /\ ReadOK

LEMMA LegacyInit ==
  ASSUME LegacyAssumption, Init
  PROVE  LegacyInv
BY DEF Init, LegacyInv, TypeOK, TaggedOK, ReadOK, NewRow, ImageAsset, CategorySources

\* A statement of a run that leaves the categories alone.
LEMMA StatementKeeps ==
  ASSUME LegacyAssumption, LegacyInv, NEW r \in Runs, run[r] # None,
         NEW new \in ImageAsset, row' = [row EXCEPT ![run[r].file] = new],
         new.category = row[run[r].file].category, new.by = row[run[r].file].by,
         NEW work \in Work \cup {None}, run' = [run EXCEPT ![r] = work],
         work # None => Locating(work) /\ work.step \notin {"Infer", "Assign"},
         tag' = tag
  PROVE  LegacyInv' /\ \A f \in Files : row'[f].by = row[f].by
<1>1. TypeOK /\ run[r] \in Work /\ run[r].file \in Files
  BY DEF LegacyInv, TypeOK, Work
<1>2. TypeOK'
  BY <1>1 DEF TypeOK
<1>3. \A f \in Files : row'[f].by = row[f].by /\ row'[f].category = row[f].category
  BY <1>1 DEF TypeOK
<1>4. TaggedOK'
  BY <1>3 DEF LegacyInv, TaggedOK
<1>5. ReadOK'
  <2> SUFFICES ASSUME NEW q \in Runs, run'[q] # None PROVE WorkOK(run[q])'
    BY DEF ReadOK
  <2>1. CASE q = r
    <3>1. run'[q] = work
      BY <1>1, <2>1 DEF TypeOK
    <3> QED  BY <3>1 DEF WorkOK, Locating, Deciding, Assigning
  <2>2. CASE q # r
    <3>1. run'[q] = run[q] /\ run[q].file \in Files
      BY <1>1, <2>2 DEF TypeOK, Work
    <3> QED  BY <1>3, <3>1 DEF LegacyInv, ReadOK, WorkOK, Locating, Deciding, Assigning
  <2> QED  BY <2>1, <2>2
<1> QED  BY <1>2, <1>3, <1>4, <1>5 DEF LegacyInv

\* A step of a run in its memory.
LEMMA MemoryKeeps ==
  ASSUME LegacyAssumption, LegacyInv, NEW r \in Runs,
         NEW work \in Work \cup {None}, run' = [run EXCEPT ![r] = work],
         work # None => WorkOK(work),
         row' = row, tag' = tag
  PROVE  LegacyInv' /\ \A f \in Files : row'[f].by = row[f].by
<1>1. TypeOK
  BY DEF LegacyInv
<1>2. TypeOK' /\ TaggedOK'
  BY <1>1 DEF TypeOK, LegacyInv, TaggedOK
<1>3. ReadOK'
  <2>1. \A q \in Runs : run'[q] = IF q = r THEN work ELSE run[q]
    BY <1>1 DEF TypeOK
  <2> QED  BY <2>1 DEF LegacyInv, ReadOK, WorkOK, Locating, Deciding, Assigning
<1> QED  BY <1>2, <1>3 DEF LegacyInv

LEMMA TakeKeeps ==
  ASSUME LegacyAssumption, LegacyInv, NEW r \in Runs, NEW f \in Files, NEW force \in BOOLEAN,
         Take(r, f, force)
  PROVE  LegacyInv' /\ \A g \in Files : row'[g].by = row[g].by
<1> DEFINE work == [file |-> f, force |-> force, step |-> "Upsert",
                    seen |-> row[f], assignment |-> NoAssignment]
<1>1. work \in Work /\ work.step = "Upsert"
  BY DEF LegacyInv, TypeOK, Work, Steps
<1>2. run' = [run EXCEPT ![r] = work] /\ row' = row /\ tag' = tag
  BY DEF Take
<1> HIDE DEF work
<1>3. WorkOK(work)
  BY <1>1 DEF WorkOK, Locating, Deciding, Assigning
<1> QED  BY <1>1, <1>2, <1>3, MemoryKeeps

\* A run is at one file, and goes on from one step to another.
LEMMA AtWork ==
  ASSUME LegacyAssumption, LegacyInv, NEW r \in Runs, run[r] # None
  PROVE  /\ run[r] \in Work /\ run[r].file \in Files
         /\ row[run[r].file] \in ImageAsset /\ run[r].seen \in ImageAsset
         /\ \A s \in Steps : /\ [run[r] EXCEPT !.step = s] \in Work
                             /\ [run[r] EXCEPT !.step = s].step = s
                             /\ [run[r] EXCEPT !.step = s].file = run[r].file
                             /\ [run[r] EXCEPT !.step = s].seen = run[r].seen
                             /\ [run EXCEPT ![r].step = s] =
                                  [run EXCEPT ![r] = [run[r] EXCEPT !.step = s]]
<1>1. run[r] \in Work /\ row \in [Files -> ImageAsset]
  BY DEF LegacyInv, TypeOK
<1> QED  BY <1>1 DEF Work

LEMMA UpsertKeeps ==
  ASSUME LegacyAssumption, LegacyInv, NEW r \in Runs, NEW extracted \in BOOLEAN,
         Upsert(r, extracted)
  PROVE  LegacyInv' /\ \A f \in Files : row'[f].by = row[f].by
<1> DEFINE f     == run[r].file
           place == PlaceOf(r, extracted)
           new   == [row[f] EXCEPT !.there = TRUE, !.place = place]
           seen  == [run[r].seen EXCEPT !.place = place]
           step  == IF place = None THEN "Read" ELSE "Locate"
           work  == [run[r] EXCEPT !.step = step, !.seen = seen]
<1>1. /\ run[r] \in Work /\ f \in Files
      /\ row[f] \in ImageAsset /\ run[r].seen \in ImageAsset /\ run[r] # None
  BY AtWork DEF Upsert
<1>2. place \in Places \cup {None}
  BY <1>1 DEF PlaceOf, ImageAsset
<1>3. row' = [row EXCEPT ![f] = new]
  BY DEF Upsert
<1>4. run' = [run EXCEPT ![r] = work] /\ tag' = tag
  BY DEF Upsert
<1>5. new \in ImageAsset /\ new.category = row[f].category /\ new.by = row[f].by
  BY <1>1, <1>2 DEF ImageAsset
<1>6. seen \in ImageAsset
  BY <1>1, <1>2 DEF ImageAsset
<1>7. work \in Work /\ Locating(work) /\ work.step \notin {"Infer", "Assign"}
  <2>1. work \in Work /\ work.step = step /\ work.seen = seen
    BY <1>1, <1>6 DEF Work, Steps
  <2>2. seen.place = place
    BY <1>1 DEF ImageAsset
  <2> HIDE DEF work, seen
  <2> QED  BY <1>2, <2>1, <2>2 DEF Locating
<1> HIDE DEF new, work
<1> QED  BY <1>1, <1>3, <1>4, <1>5, <1>7, StatementKeeps

\* A statement that changes a part of the row, or none, and the next step.
LEMMA PartKeeps ==
  ASSUME LegacyAssumption, LegacyInv, NEW r \in Runs, run[r] # None,
         NEW new \in ImageAsset,
         new.category = row[run[r].file].category, new.by = row[run[r].file].by,
         row' = [row EXCEPT ![run[r].file] = new] \/ row' = row,
         NEW work \in Work \cup {None}, run' = [run EXCEPT ![r] = work],
         work # None => work.step \in {"Read", "Caption"},
         tag' = tag
  PROVE  LegacyInv' /\ \A f \in Files : row'[f].by = row[f].by
<1>1. work # None => WorkOK(work) /\ Locating(work) /\ work.step \notin {"Infer", "Assign"}
  BY DEF WorkOK, Locating, Deciding, Assigning
<1>2. CASE row' = [row EXCEPT ![run[r].file] = new]
  BY <1>1, <1>2, StatementKeeps
<1>3. CASE row' = row
  BY <1>1, <1>3, MemoryKeeps
<1> QED  BY <1>2, <1>3

LEMMA LocateKeeps ==
  ASSUME LegacyAssumption, LegacyInv, NEW r \in Runs, NEW answered \in BOOLEAN,
         Locate(r, answered)
  PROVE  LegacyInv' /\ \A f \in Files : row'[f].by = row[f].by
<1> DEFINE f    == run[r].file
           at   == run[r].seen.place
           new  == IF at \in Places THEN [row[f] EXCEPT !.address = AddressOf(at)] ELSE row[f]
           work == [run[r] EXCEPT !.step = "Read"]
<1>1. run[r] # None /\ run[r] \in Work /\ f \in Files /\ row[f] \in ImageAsset
  BY AtWork DEF Locate
<1>2. new \in ImageAsset /\ new.category = row[f].category /\ new.by = row[f].by
  BY <1>1 DEF ImageAsset, AddressOf
<1>3. work \in Work /\ work.step = "Read" /\ run' = [run EXCEPT ![r] = work] /\ tag' = tag
  BY <1>1, AtWork DEF Locate, Goes, Steps
<1>4. at \in Places
  BY DEF LegacyInv, Locate, ReadOK, WorkOK, Locating
<1>5. row' = [row EXCEPT ![f] = new] \/ row' = row
  BY <1>4 DEF Locate, UpdateLocation
<1> HIDE DEF new, work
<1> QED  BY <1>1, <1>2, <1>3, <1>5, PartKeeps

LEMMA CaptionKeeps ==
  ASSUME LegacyAssumption, LegacyInv, NEW r \in Runs, NEW generated \in BOOLEAN,
         Caption(r, generated)
  PROVE  LegacyInv' /\ \A f \in Files : row'[f].by = row[f].by
<1> DEFINE f   == run[r].file
           new == [row[f] EXCEPT !.described = TRUE]
<1>1. run[r] # None /\ f \in Files /\ row[f] \in ImageAsset
  BY AtWork DEF Caption
<1>2. new \in ImageAsset /\ new.category = row[f].category /\ new.by = row[f].by
  BY <1>1 DEF ImageAsset
<1>3. row' = [row EXCEPT ![f] = new] \/ row' = row
  BY DEF Caption, UpdateCaption
<1>4. run' = [run EXCEPT ![r] = None] /\ tag' = tag /\ None \in Work \cup {None}
  BY DEF Caption
<1> HIDE DEF new
<1> QED  BY <1>1, <1>2, <1>3, <1>4, PartKeeps

\* A file is read again before its category is decided on.
LEMMA ReadKeeps ==
  ASSUME LegacyAssumption, LegacyInv, NEW r \in Runs, Read(r)
  PROVE  LegacyInv' /\ \A f \in Files : row'[f].by = row[f].by
<1> DEFINE f    == run[r].file
           work == [run[r] EXCEPT !.step = "Infer", !.seen = row[f]]
<1>1. run[r] # None /\ run[r] \in Work /\ f \in Files /\ row[f] \in ImageAsset
  BY AtWork DEF Read
<1>2. work \in Work /\ work.step = "Infer" /\ work.seen = row[f] /\ work.file = f
  BY <1>1 DEF Work, Steps
<1>3. run' = [run EXCEPT ![r] = work] /\ row' = row /\ tag' = tag
  BY DEF Read
<1> HIDE DEF work
<1>4. WorkOK(work)
  BY <1>1, <1>2 DEF LegacyInv, TaggedOK, WorkOK, Locating, Deciding, Assigning
<1> QED  BY <1>2, <1>3, <1>4, MemoryKeeps

\* Categories are taken from rows that have one.
LEMMA TaggedRows ==
  ASSUME LegacyAssumption, LegacyInv, NEW f, NEW address, NEW place,
         NEW g \in SameAddress(f, address) \cup Nearby(f, place)
  PROVE  row[g].category \in Categories
<1>1. g \in Tagged(f)
  BY DEF SameAddress, Nearby
<1> QED  BY <1>1 DEF Tagged, LegacyInv, TypeOK, ImageAsset

LEMMA InferKeeps ==
  ASSUME LegacyAssumption, LegacyInv, NEW r \in Runs, Infer(r)
  PROVE  LegacyInv' /\ \A f \in Files : row'[f].by = row[f].by
<1> DEFINE f    == run[r].file
           near == SameAddress(f, run[r].seen.address) \cup Nearby(f, run[r].seen.place)
           Given(g, source) ==
             [run[r] EXCEPT !.step = "Assign",
                            !.assignment = [category |-> row[g].category, by |-> source]]
<1>1. /\ run[r] # None /\ run[r].step = "Infer" /\ run[r] \in Work
      /\ WorkOK(run[r]) /\ row' = row /\ tag' = tag
  BY AtWork DEF Infer, LegacyInv, ReadOK
<1>2. ASSUME Goes(r, "Caption")
      PROVE  LegacyInv' /\ \A g \in Files : row'[g].by = row[g].by
  <2> DEFINE work == [run[r] EXCEPT !.step = "Caption"]
  <2>1. work \in Work /\ work.step = "Caption" /\ run' = [run EXCEPT ![r] = work]
    BY <1>1, <1>2, AtWork DEF Goes, Steps
  <2> HIDE DEF work
  <2>2. WorkOK(work)
    BY <2>1 DEF WorkOK, Locating, Deciding, Assigning
  <2> QED  BY <1>1, <2>1, <2>2, MemoryKeeps
<1>3. ASSUME ~Keeps(r), NEW g \in near, NEW source \in {"AddressPropagation", "RadiusPropagation10m"},
             run' = [run EXCEPT ![r] = Given(g, source)]
      PROVE  LegacyInv' /\ \A h \in Files : row'[h].by = row[h].by
  <2> DEFINE a    == [category |-> row[g].category, by |-> source]
             work == Given(g, source)
  <2>1. a \in Assignment /\ a.by # "Manual"
    BY <1>3, TaggedRows DEF Assignment, CategorySources
  <2>2. /\ work \in Work /\ work.step = "Assign" /\ work.assignment = a
        /\ work.seen = run[r].seen /\ work.file = run[r].file
    BY <1>1, <2>1 DEF Work, Steps
  <2> HIDE DEF a, work
  <2>3. WorkOK(work)
    BY <1>1, <1>3, <2>1, <2>2 DEF WorkOK, Locating, Deciding, Assigning, Keeps
  <2> QED  BY <1>1, <1>3, <2>2, <2>3, MemoryKeeps DEF work
<1>4. \/ Goes(r, "Caption")
      \/ ~Keeps(r) /\ \E g \in near, source \in {"AddressPropagation", "RadiusPropagation10m"} :
                        run' = [run EXCEPT ![r] = Given(g, source)]
  <2> DEFINE Give(g, source) ==
        run' = [run EXCEPT ![r].step = "Assign",
                  ![r].assignment = [category |-> row[g].category, by |-> source]]
  <2>1. \/ Goes(r, "Caption")
        \/ ~Keeps(r) /\ \E g \in near : Give(g, "AddressPropagation") \/ Give(g, "RadiusPropagation10m")
    BY DEF Infer
  <2>2. ASSUME NEW g, NEW source, Give(g, source)
        PROVE  run' = [run EXCEPT ![r] = Given(g, source)]
    <3>1. run \in [Runs -> Work \cup {None}]
      BY DEF LegacyInv, TypeOK
    <3> QED  BY <1>1, <2>2, <3>1 DEF Work
  <2> HIDE DEF Give, Given, near
  <2> QED  BY <2>1, <2>2
<1> HIDE DEF near, Given
<1> QED  BY <1>2, <1>3, <1>4

\* What is assigned overwrites no manual category: the run has read the row
\* when it was not manual, and it has not been tagged since.
LEMMA AssignKeeps ==
  ASSUME LegacyAssumption, LegacyInv, NEW r \in Runs, Assign(r)
  PROVE  LegacyInv' /\ \A f \in Files : row[f].by = "Manual" => row'[f].by = "Manual"
<1> DEFINE f    == run[r].file
           a    == run[r].assignment
           new  == [row[f] EXCEPT !.category = a.category, !.by = a.by]
           work == [run[r] EXCEPT !.step = "Caption"]
<1>1. /\ run[r] # None /\ run[r].step = "Assign" /\ f \in Files /\ row[f] \in ImageAsset
      /\ tag' = tag
  BY AtWork DEF Assign
<1>2. WorkOK(run[r])
  BY <1>1 DEF LegacyInv, ReadOK
<1>3. a \in Assignment /\ a.by # "Manual" /\ row[f].by # "Manual"
  BY <1>1, <1>2 DEF WorkOK, Deciding, Assigning
<1>4. work \in Work /\ work.step = "Caption" /\ run' = [run EXCEPT ![r] = work]
  BY <1>1, AtWork DEF Assign, Goes, Steps
<1>5. row' = row \/ row' = [row EXCEPT ![f] = new]
  BY DEF Assign, UpdateCategory
<1>6. new \in ImageAsset /\ new.by # "Manual"
  BY <1>1, <1>3 DEF ImageAsset, Assignment
<1> HIDE DEF new, work, a
<1>7. CASE row' = row
  <2>1. WorkOK(work)
    BY <1>4 DEF WorkOK, Locating, Deciding, Assigning
  <2> QED  BY <1>1, <1>4, <1>7, <2>1, MemoryKeeps
<1>8. CASE row' = [row EXCEPT ![f] = new]
  <2>1. TypeOK /\ \A g \in Files : row'[g] = IF g = f THEN new ELSE row[g]
    BY <1>1, <1>8 DEF LegacyInv, TypeOK
  <2>2. TypeOK'
    BY <1>1, <1>4, <1>6, <1>8, <2>1 DEF TypeOK
  <2>3. TaggedOK'
    BY <1>6, <2>1 DEF LegacyInv, TaggedOK
  <2>4. ReadOK'
    <3> SUFFICES ASSUME NEW q \in Runs, run'[q] # None PROVE WorkOK(run[q])'
      BY DEF ReadOK
    <3>1. CASE q = r
      <4>1. run'[q] = work
        BY <1>4, <2>1, <3>1 DEF TypeOK
      <4> QED  BY <1>4, <4>1 DEF WorkOK, Locating, Deciding, Assigning
    <3>2. CASE q # r
      <4>1. run'[q] = run[q] /\ run[q].file \in Files
        BY <1>4, <2>1, <3>2 DEF TypeOK, Work
      <4> QED  BY <1>6, <2>1, <4>1 DEF LegacyInv, ReadOK, WorkOK, Locating, Deciding, Assigning
    <3> QED  BY <3>1, <3>2
  <2> QED  BY <1>3, <2>1, <2>2, <2>3, <2>4 DEF LegacyInv
<1> QED  BY <1>5, <1>7, <1>8

LEMMA StopKeeps ==
  ASSUME LegacyAssumption, LegacyInv, NEW r \in Runs, Stop(r)
  PROVE  LegacyInv' /\ \A f \in Files : row'[f].by = row[f].by
<1>1. run' = [run EXCEPT ![r] = None] /\ row' = row /\ tag' = tag /\ None \in Work \cup {None}
  BY DEF Stop
<1> QED  BY <1>1, MemoryKeeps

LEMMA MatchKeeps ==
  ASSUME LegacyAssumption, LegacyInv, NEW t \in Taggers, Matching(t)
  PROVE  LegacyInv' /\ \A f \in Files : row'[f].by = row[f].by
<1>1. PICK p \in Places, c \in Categories, b \in BOOLEAN : Match(t, p, c, b)
  BY DEF Matching
<1>2. PICK files \in SUBSET Files : tag' = [tag EXCEPT ![t] = [files |-> files, category |-> c]]
  BY <1>1 DEF Match
<1>3. UNCHANGED <<row, run>>
  BY <1>1 DEF Match
<1>4. TypeOK'
  BY <1>2, <1>3 DEF LegacyInv, TypeOK, Tag
<1> QED  BY <1>3, <1>4 DEF LegacyInv, TaggedOK, ReadOK, WorkOK, Locating, Deciding, Assigning

LEMMA ApplyKeeps ==
  ASSUME LegacyAssumption, LegacyInv, NEW t \in Taggers, ApplyApart(t)
  PROVE  LegacyInv' /\ \A f \in Files : row[f].by = "Manual" => row'[f].by = "Manual"
<1> DEFINE files == tag[t].files
           c     == tag[t].category
           New(f) == [row[f] EXCEPT !.category = c, !.by = "Manual"]
<1>1. /\ files \subseteq Files /\ c \in Categories
      /\ row' = [f \in Files |-> IF f \in files THEN New(f) ELSE row[f]]
      /\ run' = run /\ tag' = [tag EXCEPT ![t] = None]
      /\ \A r \in Runs : run[r] # None => run[r].file \notin files
  BY DEF LegacyInv, TypeOK, Tag, ApplyApart, Apply
<1>2. \A f \in Files : row[f] \in ImageAsset
  BY DEF LegacyInv, TypeOK
<1>3. \A f \in Files : New(f) \in ImageAsset /\ New(f).by = "Manual" /\ New(f).category = c
  BY <1>1, <1>2 DEF ImageAsset, CategorySources
<1> HIDE DEF New, files, c
<1>4. TypeOK'
  <2>1. row' \in [Files -> ImageAsset]
    BY <1>1, <1>2, <1>3
  <2> QED  BY <1>1, <2>1 DEF LegacyInv, TypeOK
<1>5. TaggedOK'
  BY <1>1, <1>3 DEF LegacyInv, TaggedOK
<1>6. ReadOK'
  <2> SUFFICES ASSUME NEW r \in Runs, run[r] # None PROVE WorkOK(run[r])'
    BY <1>1 DEF ReadOK
  <2>1. row'[run[r].file] = row[run[r].file]
    BY <1>1, AtWork
  <2> QED  BY <1>1, <2>1 DEF LegacyInv, ReadOK, WorkOK, Locating, Deciding, Assigning
<1> QED  BY <1>1, <1>3, <1>4, <1>5, <1>6 DEF LegacyInv

LEMMA ImportKeeps ==
  ASSUME LegacyAssumption, LegacyInv, Import
  PROVE  LegacyInv' /\ \A f \in Files : row[f].by = "Manual" => row'[f].by = "Manual"
<1>1. CASE \E r \in Runs, b \in BOOLEAN : \E f \in Files : Take(r, f, b)
  BY <1>1, TakeKeeps
<1>2. CASE \E r \in Runs, b \in BOOLEAN : Upsert(r, b) \/ Locate(r, b) \/ Caption(r, b)
  BY <1>2, UpsertKeeps, LocateKeeps, CaptionKeeps
<1>3. CASE \E r \in Runs : Read(r) \/ Infer(r) \/ Assign(r) \/ Stop(r)
  BY <1>3, ReadKeeps, InferKeeps, AssignKeeps, StopKeeps
<1> QED  BY <1>1, <1>2, <1>3 DEF Import

ApartNext == Import \/ \E t \in Taggers : Matching(t) \/ ApplyApart(t)

LEMMA ApartStep ==
  ASSUME LegacyAssumption, LegacyInv, [ApartNext]_vars
  PROVE  LegacyInv' /\ \A f \in Files : row[f].by = "Manual" => row'[f].by = "Manual"
<1>1. CASE UNCHANGED vars
  BY <1>1 DEF vars, LegacyInv, TypeOK, TaggedOK, ReadOK, WorkOK, Locating, Deciding, Assigning
<1>2. CASE ApartNext
  BY <1>2, ImportKeeps, MatchKeeps, ApplyKeeps DEF ApartNext
<1> QED  BY <1>1, <1>2

\* The inductive invariant of imports and tags that keep apart.
THEOREM LegacyInductive == LegacyAssumption => (ApartSpec => []LegacyInv)
<1> SUFFICES ASSUME LegacyAssumption PROVE ApartSpec => []LegacyInv
  OBVIOUS
<1>1. Init => LegacyInv
  BY LegacyInit
<1>2. LegacyInv /\ [ApartNext]_vars => LegacyInv'
  BY ApartStep
<1> QED  BY <1>1, <1>2, PTL DEF ApartSpec, ApartNext

\* No import overwrites a category set by hand, forced or not
\* (_assign_inferred_category), however many imports run at once, as long as
\* no row is tagged while one of them works on its file.
THEOREM ManualAlwaysKept == LegacyAssumption => (ApartSpec => ManualKept)
<1> SUFFICES ASSUME LegacyAssumption PROVE ApartSpec => ManualKept
  OBVIOUS
<1>1. LegacyInv /\ [ApartNext]_vars =>
        [\A f \in Files : row[f].by = "Manual" => row'[f].by = "Manual"]_vars
  BY ApartStep
<1> QED  BY <1>1, LegacyInductive, PTL DEF ApartSpec, ApartNext, ManualKept

=============================================================================
