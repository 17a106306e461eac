--------------------------- MODULE GlobalDatabase ---------------------------
(***************************************************************************)
(* The database of the packages and entities that can be found from every  *)
(* file of a compilation (generator/database/global_database.cpp and .hpp, *)
(* name_map.cpp).                                                          *)
(*                                                                         *)
(* The C++ class keeps a map from library names to maps from object names  *)
(* to one Object each: its type, the source text that declared it and the  *)
(* local database of its declarations.  Here it is one partial function    *)
(* from keys <<library, name>> to entries.  An entry records the kind of   *)
(* the object, the design unit that declared it (its origin), the          *)
(* identifiers it declares and those a use clause has made visible.        *)
(***************************************************************************)
CONSTANTS Libraries,    \* names of libraries, WORK among them
          Names,        \* names of packages and entities
          Identifiers,  \* names that a package declares
          ALL           \* the suffix of "use library.package.all"

ASSUME AllIsNoIdentifier == ALL \notin Identifiers

Keys == Libraries \X Names

\* The kinds of object that a file ever makes global.
GlobalKinds == {"package", "entity"}

Entries(Origins) == [kind     : GlobalKinds,
                     origin   : Origins,
                     declares : SUBSET Identifiers,
                     visible  : SUBSET Identifiers]

EmptyDatabase == [key \in {} |-> key]

(***************************************************************************)
(* GlobalDatabase::append: the first definition of a key stays; a second   *)
(* one, of whatever kind, is rejected (with two error messages).           *)
(***************************************************************************)
AlreadyDefined(db, key) == key \in DOMAIN db

\* Faulty form: the last definition wins.
AppendLastWins(db, key, entry) ==
  [k \in DOMAIN db \cup {key} |-> IF k = key THEN entry ELSE db[k]]

AppendObject(db, key, entry) ==
  [k \in DOMAIN db \cup {key} |-> IF k \in DOMAIN db THEN db[k] ELSE entry]

(***************************************************************************)
(* GlobalDatabase::findObject with a definite type.                        *)
(***************************************************************************)
HasObject(db, key, kind) == key \in DOMAIN db /\ db[key].kind = kind

(***************************************************************************)
(* GlobalDatabase::setVisible with a library and a package.  Its answer is *)
(* whether traverseAll found the package: the answer of                    *)
(* NameMap::setVisible, whether the package has the identifier, is         *)
(* dropped by the lambda.                                                  *)
(***************************************************************************)
SetVisibleFinds(db, key) == key \in DOMAIN db

\* Faulty form: an identifier becomes visible though the package lacks it.
SelectedUnchecked(id, entry) == IF id = ALL THEN entry.declares ELSE {id}

SelectedBy(id, entry) ==
  IF id = ALL THEN entry.declares ELSE entry.declares \cap {id}

SetVisible(db, key, id) ==
  [k \in DOMAIN db |->
     IF k = key THEN [db[k] EXCEPT !.visible = @ \cup SelectedBy(id, db[k])]
                ELSE db[k]]
=============================================================================
