------------------------------ MODULE Classes -------------------------------
(***************************************************************************)
(* Classes and their objects (class_builder.c, LI_MAKE_CLASS), and how a   *)
(* member is found and a method learns its self (lky_object.c,             *)
(* lobjb_default_callable).  A program declares classes, makes objects,    *)
(* whose initialisers may call superInit, and fetches and calls methods,   *)
(* at once or later.  A method is named by the class that declares it: all *)
(* objects share the one function object, and it has one `bound'.          *)
(***************************************************************************)
EXTENDS Naturals, FiniteSets, SequencesExt

CONSTANTS
  Class, Instance,
  ABSENT,
  SuperCalls,    \* the numbers of calls of superInit an initialiser may make
  MaxFetched     \* bound on the methods fetched and not called yet

ASSUME ClassAssumption ==
  /\ ABSENT \notin Class \cup Instance /\ SuperCalls \subseteq Nat /\ MaxFetched \in Nat
  /\ ABSENT \notin [class : Class, superInit : Class \cup {ABSENT}]
  /\ ABSENT \notin [super : Class \cup {ABSENT}, init : SuperCalls \cup {ABSENT}, declares : BOOLEAN]

VARIABLES
  class,     \* the classes that are declared: [super, init, declares]; init is the calls of superInit
  object,    \* the objects: [class, superInit]; superInit is the class whose wrapper it is
  running,   \* the initialisers that run, innermost last: [of, self, supers], supers the calls made
  bound,     \* the object the method of a class is bound to
  fetched,   \* methods on the operand stack or in variables: [method, receiver, usual]
  called     \* the last call of a method: [receiver, self, usual]
classVars == <<class, object, running, bound, fetched, called>>

Declared == {c \in Class : class[c] # ABSENT}
HasInit(c) == c # ABSENT /\ class[c].init # ABSENT
Super(c) == class[c].super
Made == {o \in Instance : object[o] # ABSENT}

ClassInit ==
  /\ class = [c \in Class |-> ABSENT] /\ object = [o \in Instance |-> ABSENT]
  /\ running = <<>>
  /\ bound = [c \in Class |-> ABSENT]
  /\ fetched = <<>> /\ called = ABSENT

\* LI_MAKE_CLASS, with the members' clb_add_member: a new class has a model, whose
\* prototype is the model of its parent, and, if it has a parent, a super_init_.  Nothing
\* of it is read by what exists already: the classes are declared before the objects,
\* in one order.
clb_init_class(c, super, init, declares) ==
  /\ Made = {} /\ c = CHOOSE k \in Class : class[k] = ABSENT
  /\ super # ABSENT => super \in Declared
  /\ class' = [class EXCEPT ![c] = [super |-> super, init |-> init, declares |-> declares]]
  /\ UNCHANGED <<object, running, bound, fetched, called>>

\* A mutant: the wrapper of the parent is left in its place.
Initialise_keeps(stack, c, self, was) ==
  /\ object' = [object EXCEPT ![self] = [class |-> was.class,
                  superInit |-> IF was.superInit = ABSENT /\ Super(c) # ABSENT THEN c ELSE was.superInit]]
  /\ running' = Append(stack, [of |-> c, self |-> self, supers |-> 0])

\* An initialiser of c begins on the object self, which was as given: its superInit
\* becomes the wrapper of c, unless c has no parent.
Initialise(stack, c, self, was) ==
  /\ object' = [object EXCEPT ![self] = [class |-> was.class,
                                         superInit |-> IF Super(c) # ABSENT THEN c ELSE was.superInit]]
  /\ running' = Append(stack, [of |-> c, self |-> self, supers |-> 0])

\* `c.new': the object and its initialiser, if its own class has one.  An initialiser
\* that runs may do it, too.
clb_new_wrapper(c, o) ==
  /\ c \in Declared /\ object[o] = ABSENT /\ Len(running) <= Cardinality(Class)
  /\ LET new == [class |-> c, superInit |-> ABSENT] IN
     IF HasInit(c) THEN Initialise(running, c, o, new)
     ELSE object' = [object EXCEPT ![o] = new] /\ UNCHANGED running
  /\ UNCHANGED <<class, bound, fetched, called>>

Now == running[Len(running)]
MoreSupers == running # <<>> /\ Now.supers < class[Now.of].init

\* self.superInit(...) in an initialiser: the initialiser of the parent of the class
\* whose wrapper it is begins on the same object, if the parent has one.  Where an
\* object has no superInit the exception ends all initialisers.
clb_super_init_wrapper ==
  /\ MoreSupers /\ Len(running) <= Cardinality(Class)
  /\ LET w == object[Now.self].superInit
         counted == [running EXCEPT ![Len(running)].supers = @ + 1]
     IN  IF w = ABSENT THEN running' = <<>> /\ UNCHANGED object
         ELSE IF HasInit(Super(w)) THEN Initialise(counted, Super(w), Now.self, object[Now.self])
         ELSE running' = counted /\ UNCHANGED object
  /\ UNCHANGED <<class, bound, fetched, called>>

InitReturns ==
  /\ running # <<>> /\ ~MoreSupers
  /\ running' = Front(running)
  /\ UNCHANGED <<class, object, bound, fetched, called>>

-----------------------------------------------------------------------------
(* Methods.  One member name is enough: classes declare a method of that   *)
(* name or not.                                                            *)

\* c and its ancestors, as the prototypes lead.
Lineage(c) == LET Up[n \in Nat] == IF n = 0 THEN c ELSE IF Up[n - 1] = ABSENT THEN ABSENT ELSE Super(Up[n - 1])
              IN  SelectSeq([i \in 1..Cardinality(Class) |-> Up[i - 1]], LAMBDA k : k # ABSENT)
Declarers(c) == SelectSeq(Lineage(c), LAMBDA k : class[k].declares)

\* A mutant: a method found in the prototype is bound to the prototype's object only.
BoundIn_proto(o, c) == IF object[o].class = c THEN o ELSE ABSENT

\* What a method that class c declares is bound to when it is fetched from o.
\* The prototype binds it to itself first, o last.
BoundIn(o, c) == o

\* The methods on the stack or in variables, once the one of class c is bound anew.
Rebound(s, c) == [i \in DOMAIN s |-> [s[i] EXCEPT !.usual = @ /\ s[i].method # c]]

\* The member of o is fetched; c is the first of its line that declares it.
lobj_get_member(o, c) ==
  /\ o \in Made /\ Len(fetched) < MaxFetched
  /\ LET found == Declarers(object[o].class) IN found # <<>> /\ c = found[1]
  /\ bound' = [bound EXCEPT ![c] = BoundIn(o, c)]
  /\ fetched' = Append(Rebound(fetched, c), [method |-> c, receiver |-> o, usual |-> TRUE])
  /\ UNCHANGED <<class, object, running, called>>

\* A method fetched earlier is called; its self is what it is bound to now, and it is
\* bound to nothing afterwards.
lobjb_default_callable(i) ==
  LET f == fetched[i]
  IN  /\ called' = [receiver |-> f.receiver, self |-> bound[f.method], usual |-> f.usual]
      /\ bound' = [bound EXCEPT ![f.method] = ABSENT]
      /\ fetched' = Rebound(RemoveAt(fetched, i), f.method)
      /\ UNCHANGED <<class, object, running>>

ClassNext ==
  \/ \E c \in Class \ Declared, super \in Class \cup {ABSENT}, init \in SuperCalls \cup {ABSENT}, declares \in BOOLEAN :
       clb_init_class(c, super, init, declares)
  \/ \E c \in Class, o \in Instance : clb_new_wrapper(c, o)
  \/ clb_super_init_wrapper
  \/ InitReturns
  \/ \E o \in Instance, c \in Class : lobj_get_member(o, c)
  \/ \E i \in DOMAIN fetched : lobjb_default_callable(i)

ClassSpec == ClassInit /\ [][ClassNext]_classVars

-----------------------------------------------------------------------------

\* The first superInit of an initialiser of a class that has a parent runs the
\* initialiser of that parent on the same object, however long the line of
\* classes is and whatever other objects are made meanwhile (it is one member of
\* the object that all its initialisers share).  A second superInit may run that of
\* the grandparent (class_builder.c:35).
SuperIsParent ==
  [][Len(running') > Len(running) /\ running # <<>> /\ running'[Len(running')].self = Now.self =>
       (Now.supers = 0 /\ Super(Now.of) # ABSENT => running'[Len(running')].of = Super(Now.of))]_classVars

\* A method has as its self the object it was fetched from, inherited or not, if
\* between the fetching and the call nobody has fetched or called the same method
\* (lky_object.c:74; CALL_FUNC fetches after the arguments are evaluated).
SelfIsReceiver == called # ABSENT /\ called.usual => called.self = called.receiver
=============================================================================
