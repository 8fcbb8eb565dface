------------------------------ MODULE MCLibrary ------------------------------
(***************************************************************************)
(* The parts a program builds its data from, one at a time: a Table, an    *)
(* Array, the collector's set of objects, the making of objects and the    *)
(* calling of their methods, the modules of an interpreter, and a string   *)
(* or a regular expression (MCStrings).                                    *)
(***************************************************************************)
EXTENDS HashTable, GcHashSet, Arrays, Classes, Modules, MCStrings

\* The keys: a number and an equal one of another type, three in one bucket.
MCHash(k) == CASE k \in {"one", "one.0", "one.5"} -> 1 [] k = "nine" -> 9 [] k = "two" -> 2
MCKeyClass(k) == IF k = "one.0" THEN "one" ELSE k
MCOther == {<<<<"nine", "v">>, <<"one.0", "w">>>>, <<<<"two", "v">>>>}

\* The files: a and sub/b, two modules called util, and a shared library.
MCLocated(f, n) == CASE n = "math" -> STDLIB [] n = "gone" -> NIL
                 [] n = "util" -> IF f = "sub/b" THEN "sub/util" ELSE "a"
                 [] n = "a.lky" -> IF f = "sub/b" THEN NIL ELSE "a"
                 [] n = "b" -> "sub/b"
                 [] n = "lib" -> "so"

VARIABLE kind    \* of the part this behaviour is about
allVars == <<tableVars, setVars, arrayVars, classVars, moduleVars, stringVars, kind>>

Kinds == {"table", "set", "array", "initialisers", "methods", "modules", "string"}
Quiet == rgx = stlrgx_common_init(<<>>, {}) /\ call = NoCall /\ str = stlstr_cinit(<<>>)

Init == /\ TableInit /\ SetInit /\ ArrayInit /\ ClassInit /\ ModuleInit
        /\ kind \in Kinds
        /\ kind = "table" \/ did.arg = <<>>
        /\ IF kind = "string" THEN MCStringInit ELSE Quiet

Finished == /\ \/ did.nr = MaxMethods \/ adjacent \/ stray # "none" \/ state # "up" \/ call.nr = MaxCalls
               \/ kind \in {"initialisers", "methods"} /\ (Made = Instance \/ Len(running) > Cardinality(Class))
            /\ UNCHANGED allVars

\* The making of objects and the calling of methods share no state but the classes:
\* one behaviour has no methods, the other no initialisers.
Next ==
  \/ /\ kind = "table" /\ TableNext
     /\ UNCHANGED <<setVars, arrayVars, classVars, moduleVars, stringVars, kind>>
  \/ /\ kind = "set" /\ SetNext
     /\ UNCHANGED <<tableVars, arrayVars, classVars, moduleVars, stringVars, kind>>
  \/ /\ kind = "array" /\ ArrayNext
     /\ UNCHANGED <<tableVars, setVars, classVars, moduleVars, stringVars, kind>>
  \/ /\ kind \in {"initialisers", "methods"} /\ ClassNext
     /\ \A c \in Class : class'[c] # ABSENT =>
          IF kind = "methods" THEN class'[c].init = ABSENT ELSE ~class'[c].declares
     /\ UNCHANGED <<tableVars, setVars, arrayVars, moduleVars, stringVars, kind>>
  \/ /\ kind = "modules" /\ ModuleNext
     /\ UNCHANGED <<tableVars, setVars, arrayVars, classVars, stringVars, kind>>
  \/ /\ kind = "string" /\ MCStringNext
     /\ UNCHANGED <<tableVars, setVars, arrayVars, classVars, moduleVars, kind>>
  \/ Finished

Spec == Init /\ [][Next]_allVars

-----------------------------------------------------------------------------

TypeOK == CASE kind = "table" -> TableTypeOK
            [] kind = "set" -> SetTypeOK
            [] kind = "array" -> ArrayTypeOK
            [] kind = "string" -> StringTypeOK
            [] OTHER -> kind \in Kinds

=============================================================================
