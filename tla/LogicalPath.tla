----------------------------- MODULE LogicalPath -----------------------------
(***************************************************************************)
(* How a logical path is resolved: to the levels an object is walked by    *)
(* (PathResolver), and to the relation that a prefix selects and its index *)
(* columns.  (The branch that is read for it: BranchResolver.)             *)
(*                                                                         *)
(* A path is the sequence of its components after the class.  ROOT's type  *)
(* system is a parameter: a type is a name with a description, a class has *)
(* the elements of its TStreamerInfo.  Offsets and sizes count slots (one  *)
(* for a number, a string, a pointer or a container) instead of bytes.     *)
(***************************************************************************)
EXTENDS Integers, Sequences, FiniteSets, SequencesExt

CONSTANTS
    Types,     \* [type name -> its description]: see TypeAssumption
    Streamers, \* [class -> Seq of its TStreamerElements]
    Root       \* the class of the object branch

ASSUME TypeAssumption ==
    \A t \in DOMAIN Types :
        /\ Types[t].kind \in {"number", "string", "class", "vector", "map"}
        /\ Types[t].kind = "class" => t \in DOMAIN Streamers
        /\ Types[t].kind \in {"vector", "map"} => Types[t].of \in DOMAIN Types

IsNumber(t)      == Types[t].kind = "number"
IsString(t)      == Types[t].kind = "string"
IsContainer(t)   == Types[t].kind \in {"vector", "map"}
IsAssociative(t) == Types[t].kind = "map"

NoClass == ""
NoField == [name |-> "", type |-> "", base |-> FALSE, offset |-> 0, pointer |-> FALSE, dims |-> <<>>]

\* TStreamerElement::GetClassPointer, TVirtualCollectionProxy::GetValueClass.
ClassOf(t)      == IF IsNumber(t) THEN NoClass ELSE t
ElementClass(t) == ClassOf(Types[t].of)

Elements(class) == IF class \in DOMAIN Streamers THEN Streamers[class] ELSE <<>>

LeastOf(S) == CHOOSE i \in S : \A j \in S : i <= j

RECURSIVE Product(_)
Product(dims) == IF dims = <<>> THEN 1 ELSE Head(dims) * Product(Tail(dims))

-----------------------------------------------------------------------------
(* From a path to levels.                                                  *)

\* A member of the class itself, or the first base that has one; the offset of an
\* inherited member counts from the derived object.
RECURSIVE FindStreamerField(_, _, _)
FindStreamerField(class, field, visited) ==
    LET E == Elements(class)
        Inherited == [i \in {i \in DOMAIN E : E[i].base} |->
                        FindStreamerField(E[i].type, field, visited \cup {class})]
        own   == {i \in DOMAIN E : ~E[i].base /\ E[i].name = field}
        bases == {i \in DOMAIN Inherited : Inherited[i] # NoField}
    IN IF class \in visited THEN NoField
       ELSE IF own # {} THEN E[LeastOf(own)]
       ELSE IF bases = {} THEN NoField
       ELSE [Inherited[LeastOf(bases)] EXCEPT !.offset = @ + E[LeastOf(bases)].offset]

\* A PathLevel.
Level(name, f) ==
    [name |-> name, type |-> f.type, offset |-> f.offset, pointer |-> f.pointer, dims |-> f.dims]

\* The level "value" of a sequence: the element itself.
ValueOf(t) == [NoField EXCEPT !.name = "value", !.type = Types[t].of]

\* The members of a pair are addressed as key and value.
Alias(levels, field) ==
    IF levels # <<>> /\ IsAssociative(Last(levels).type) /\ field \in {"key", "value"}
    THEN IF field = "key" THEN "first" ELSE "second"
    ELSE field

\* The class that the next component is looked up in.
Below(level) ==
    IF level.pointer THEN ClassOf(level.type)
    ELSE IF IsContainer(level.type) THEN ElementClass(level.type)
    ELSE ClassOf(level.type)

Unresolved == [levels |-> <<>>, class |-> NoClass, ok |-> FALSE]

\* The member or the element that a component names.  A member that is called "value"
\* does not hide the element of a container of its class.
Component(r, field) ==
    IF r.levels # <<>> /\ field = "value" /\ IsContainer(Last(r.levels).type)
       /\ ~IsAssociative(Last(r.levels).type)
    THEN ValueOf(Last(r.levels).type)
    ELSE FindStreamerField(r.class, Alias(r.levels, field), {})

Extended(r, level) == [levels |-> Append(r.levels, level), class |-> Below(level), ok |-> TRUE]

Reached(r, field, found) ==
    IF ~r.ok \/ found = NoField THEN Unresolved ELSE Extended(r, Level(field, found))

\* One component.
Descend(r, field) == Reached(r, field, Component(r, field))

\* TryResolve: no levels when a component is absent.
ResolvePath(fields) ==
    FoldLeft(Descend, [levels |-> <<>>, class |-> Root, ok |-> TRUE], fields).levels

IsLeaf(level) == IsNumber(level.type) \/ IsString(level.type)

\* PathResolver::Resolve, of a path that is read.
Resolve(fields) ==
    LET levels == ResolvePath(fields)
    IN IF levels # <<>> /\ IsLeaf(Last(levels)) THEN levels ELSE <<>>

\* The names of the coordinates of a value: one for each container and each
\* dimension of a fixed array.
LevelIndexNames(level) ==
    IF level.dims # <<>>
    THEN IF Len(level.dims) = 1 THEN <<<<level.name, "idx">>>>
         ELSE [d \in DOMAIN level.dims |-> <<level.name, d>>]
    ELSE IF IsContainer(level.type) THEN <<<<level.name, "idx">>>>
    ELSE <<>>

IndexSignature(levels) == FoldLeft(LAMBDA names, level : names \o LevelIndexNames(level), <<>>, levels)
IndexDepth(levels)     == Len(IndexSignature(levels))

-----------------------------------------------------------------------------
(* From a prefix to a relation.                                            *)

\* Own members before inherited ones, those of TObject left out.
RECURSIVE MemberNames(_, _)
MemberNames(class, active) ==
    LET E == Elements(class)
    IN IF class \in active \cup {"TObject"} THEN {}
       ELSE {E[i].name : i \in {i \in DOMAIN E : ~E[i].base}}
            \cup UNION {MemberNames(E[i].type, active \cup {class}) : i \in {i \in DOMAIN E : E[i].base}}

Scalar(level) == IsLeaf(level) /\ level.dims = <<>>

\* DescribeSemanticPath: what is named below the path, by the type of its last level.
MembersBelow(fields, class) == {Append(fields, name) : name \in MemberNames(class, {})}

NamedBelow(fields, level) ==
    LET t == level.type
    IN IF Scalar(level) \/ (level.dims # <<>> /\ IsLeaf(level)) THEN {}
       ELSE IF level.dims # <<>> \/ ~IsContainer(t) THEN MembersBelow(fields, t)
       ELSE IF IsAssociative(t) THEN {Append(fields, "key"), Append(fields, "value")}
       ELSE IF Types[Types[t].of].kind # "class" THEN {Append(fields, "value")}
       ELSE MembersBelow(fields, Types[t].of)

NamedChildren(fields, target) ==
    IF fields = <<>> THEN MembersBelow(fields, Root)
    ELSE IF target = <<>> THEN {} ELSE NamedBelow(fields, Last(target))

\* ... the immediate children that resolve (the synthetic child of an array of leaves,
\* which nothing resolves, is left out).
Children(fields) == {path \in NamedChildren(fields, ResolvePath(fields)) : ResolvePath(path) # <<>>}

IsColumnAt(levels, target) == Scalar(Last(levels)) /\ IndexSignature(levels) = IndexSignature(target)

\* mutant: the children are selected by their types alone
SelectionOfLeaves(fields) ==
    IF fields # <<>> /\ (ResolvePath(fields) = <<>> \/ Scalar(Last(ResolvePath(fields)))) THEN {}
    ELSE {path \in Children(fields) : IsLeaf(Last(ResolvePath(path)))}

\* SelectSemanticPath: the columns of the relation are the scalar children with the
\* geometry of the prefix; a fixed array of leaves is a relation by itself.
SelectionAt(fields, target) ==
    IF fields # <<>> /\ (target = <<>> \/ Scalar(Last(target))) THEN {}
    ELSE IF target # <<>> /\ Last(target).dims # <<>> /\ IsLeaf(Last(target)) THEN {fields}
    ELSE {path \in Children(fields) : IsColumnAt(ResolvePath(path), target)}

Selection(fields) == SelectionAt(fields, ResolvePath(fields))

\* BindDirectPrimitives: the virtual index columns, each name once.
IndexColumns(paths) == UNION {Range(IndexSignature(Resolve(path))) : path \in paths}

\* FindCachedIndexSource: an index column shows the first coordinate of its name.
IndexValue(levels, index, name) ==
    index[LeastOf({i \in DOMAIN IndexSignature(levels) : IndexSignature(levels)[i] = name})]
=============================================================================
