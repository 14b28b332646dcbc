---------------------------- MODULE LegacyIndexer ----------------------------
(***************************************************************************)
(* The stand-alone importer of local photos (ImageTracker.py) and the      *)
(* script that tags places (tag_location.py), on the table ImageAsset.     *)
(*                                                                         *)
(* The importer goes through a folder, file by file, on a connection that  *)
(* commits every statement; so each statement is a step, and what a run    *)
(* has read of a row is held in its memory until the next one.  The tagger *)
(* reads the rows it matches and updates them in one transaction, without  *)
(* a lock between the two.  A run may end anywhere.                        *)
(*                                                                         *)
(* Coordinates are points of a line, and the address of a point is the     *)
(* point itself, or the one a normalization rule puts in its place.        *)
(***************************************************************************)
EXTENDS Integers

CONSTANTS
  Files,
  Gps,            \* the coordinates in a file, or None
  Places,
  Normalized,     \* the address of a place
  Radius,         \* CATEGORY_RADIUS_METERS
  Categories,
  None,
  Runs,           \* importer processes
  Taggers

\* What the constants stand for.
LegacyAssumption ==
  /\ None \notin Places /\ None \notin Categories
  /\ Gps \in [Files -> Places \cup {None}]
  /\ Normalized \in [Places -> Places]

VARIABLES
  row,     \* ImageAsset, one row per path
  run,     \* the file a run works on, and what it has read of its row
  tag      \* the rows a tagger has matched, and the category it gives them

vars == <<row, run, tag>>

CategorySources == {"None", "Manual", "AddressPropagation", "RadiusPropagation10m"}

ImageAsset == [there : BOOLEAN,
               place : Places \cup {None}, address : Places \cup {None},
               category : Categories \cup {None}, by : CategorySources,
               described : BOOLEAN]

NewRow == [there |-> FALSE, place |-> None, address |-> None,
           category |-> None, by |-> "None", described |-> FALSE]

Assignment == [category : Categories, by : CategorySources]
NoAssignment == [category |-> None, by |-> "None"]

Steps == {"Upsert", "Locate", "Read", "Infer", "Assign", "Caption"}
Work == [file : Files, force : BOOLEAN, step : Steps,
         seen : ImageAsset,                             \* existing, then current
         assignment : Assignment \cup {NoAssignment}]

Tag == [files : SUBSET Files, category : Categories]

TypeOK ==
  /\ row \in [Files -> ImageAsset]
  /\ run \in [Runs -> Work \cup {None}]
  /\ tag \in [Taggers -> Tag \cup {None}]

Init ==
  /\ row = [f \in Files |-> NewRow]
  /\ run = [r \in Runs |-> None]
  /\ tag = [t \in Taggers |-> None]

-----------------------------------------------------------------------------
Distance(a, b) == IF a < b THEN b - a ELSE a - b

\* Rows another row may take its category from.
Tagged(f) == {g \in Files \ {f} : row[g].there /\ row[g].category # None}

\* Manual categories come first; among the others, and among them, the row
\* changed last does, which may be any.
SameAddress(f, address) ==
  LET found == {g \in Tagged(f) : address # None /\ row[g].address = address}
      manual == {g \in found : row[g].by = "Manual"}
  IN  IF manual # {} THEN manual ELSE found

\* The nearest rows within the radius, and of these the manual ones.
Nearby(f, place) ==
  LET found == {g \in Tagged(f) :
                  /\ place # None /\ row[g].place # None
                  /\ Distance(place, row[g].place) <= Radius}
      nearest == {g \in found : \A h \in found :
                    Distance(place, row[g].place) <= Distance(place, row[h].place)}
      manual == {g \in nearest : row[g].by = "Manual"}
  IN  IF manual # {} THEN manual ELSE nearest

\* The first normalization rule that matches a place gives it its address.
AddressOf(place) == Normalized[place]

\* The statements that change a part of a row, whatever the rest of it is.
UpdateLocation(f, address) == [row EXCEPT ![f].address = address]
UpdateCategory(f, category, by) == [row EXCEPT ![f].category = category, ![f].by = by]
UpdateCaption(f) == [row EXCEPT ![f].described = TRUE]

-----------------------------------------------------------------------------
(* One file of a run. *)

\* Files that are older than the cutoff, that cannot be read, or that have a
\* row and need not be processed again, are passed over.
Take(r, f, force) ==
  /\ run[r] = None
  /\ ~row[f].there \/ force
  /\ run' = [run EXCEPT ![r] = [file |-> f, force |-> force, step |-> "Upsert",
                                seen |-> row[f], assignment |-> NoAssignment]]
  /\ UNCHANGED <<row, tag>>

Goes(r, step) == run' = [run EXCEPT ![r].step = step]

\* The coordinates of the file, or the ones read before when it has none.
PlaceOf(r, extracted) ==
  IF extracted /\ Gps[run[r].file] # None THEN Gps[run[r].file] ELSE run[r].seen.place

Upsert(r, extracted) ==
  /\ run[r] # None /\ run[r].step = "Upsert"
  /\ row' = [row EXCEPT ![run[r].file].there = TRUE,
                        ![run[r].file].place = PlaceOf(r, extracted)]
  /\ run' = [run EXCEPT ![r].step = IF PlaceOf(r, extracted) = None THEN "Read" ELSE "Locate",
                        ![r].seen = [@ EXCEPT !.place = PlaceOf(r, extracted)]]
  /\ UNCHANGED tag

\* The provider may not answer, and then the address stays.
Locate(r, answered) ==
  /\ run[r] # None /\ run[r].step = "Locate"
  /\ row' = IF answered
              THEN UpdateLocation(run[r].file, AddressOf(run[r].seen.place))
              ELSE row
  /\ Goes(r, "Read")
  /\ UNCHANGED tag

Read(r) ==
  /\ run[r] # None /\ run[r].step = "Read"
  /\ run' = [run EXCEPT ![r].step = "Infer", ![r].seen = row[run[r].file]]
  /\ UNCHANGED <<row, tag>>

\* A category is kept, a manual one always, another unless processing is forced.
Keeps(r) == run[r].seen.category # None /\ (~run[r].force \/ run[r].seen.by = "Manual")

Infer(r) ==
  /\ run[r] # None /\ run[r].step = "Infer"
  /\ LET f       == run[r].file
         here    == SameAddress(f, run[r].seen.address)
         near    == Nearby(f, run[r].seen.place)
         Give(g, source) ==
           run' = [run EXCEPT ![r].step = "Assign",
                     ![r].assignment = [category |-> row[g].category, by |-> source]]
     IN  IF Keeps(r) \/ here \cup near = {} THEN Goes(r, "Caption")
         ELSE IF here # {} THEN \E g \in here : Give(g, "AddressPropagation")
         ELSE \E g \in near : Give(g, "RadiusPropagation10m")
  /\ UNCHANGED <<row, tag>>

Assign(r) ==
  /\ run[r] # None /\ run[r].step = "Assign"
  /\ LET a == run[r].assignment
     IN  row' = IF run[r].seen.category = a.category /\ run[r].seen.by = a.by
                  THEN row
                  ELSE UpdateCategory(run[r].file, a.category, a.by)
  /\ Goes(r, "Caption")
  /\ UNCHANGED tag

\* The description is optional; with it the run is done with the file.
Caption(r, generated) ==
  /\ run[r] # None /\ run[r].step = "Caption"
  /\ row' = IF generated THEN UpdateCaption(run[r].file) ELSE row
  /\ run' = [run EXCEPT ![r] = None]
  /\ UNCHANGED tag

Stop(r) ==
  /\ run[r] # None
  /\ run' = [run EXCEPT ![r] = None]
  /\ UNCHANGED <<row, tag>>

-----------------------------------------------------------------------------
(* The tagger. *)

\* Rows by address or around a point, or the ones of these without category.
Match(t, place, category, onlyNull) ==
  /\ tag[t] = None
  /\ LET matched == {f \in Files :
           /\ row[f].there
           /\ \/ row[f].address = Normalized[place]
              \/ row[f].place # None /\ Distance(row[f].place, place) <= Radius
           /\ onlyNull => row[f].category = None}
     IN  /\ matched # {}
         /\ tag' = [tag EXCEPT ![t] = [files |-> matched, category |-> category]]
  /\ UNCHANGED <<row, run>>

Apply(t) ==
  /\ tag[t] # None
  /\ row' = [f \in Files |->
       IF f \in tag[t].files THEN [row[f] EXCEPT !.category = tag[t].category, !.by = "Manual"]
                             ELSE row[f]]
  /\ tag' = [tag EXCEPT ![t] = None]
  /\ UNCHANGED run

Import ==
  \/ \E r \in Runs, b \in BOOLEAN :
       \/ \E f \in Files : Take(r, f, b)
       \/ Upsert(r, b) \/ Locate(r, b) \/ Caption(r, b)
  \/ \E r \in Runs : Read(r) \/ Infer(r) \/ Assign(r) \/ Stop(r)

Matching(t) == \E p \in Places, c \in Categories, b \in BOOLEAN : Match(t, p, c, b)

Next == Import \/ \E t \in Taggers : Matching(t) \/ Apply(t)

Spec == Init /\ [][Next]_vars

\* No row is tagged while an import works on its file.
ApplyApart(t) == Apply(t) /\ \A r \in Runs : run[r] # None => run[r].file \notin tag[t].files

ApartSpec == Init /\ [][Import \/ \E t \in Taggers : Matching(t) \/ ApplyApart(t)]_vars

-----------------------------------------------------------------------------
\* "Manual categories are authoritative and must not be overwritten" by an
\* import, forced or not.
ManualKept ==
  [][\A f \in Files : row[f].by = "Manual" => row'[f].by = "Manual"]_vars
=============================================================================
