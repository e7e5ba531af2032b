-------------------------- MODULE MetadataStoreProofs --------------------------
(***************************************************************************)
(* What a put of a type does to the types of the store, whoever puts it.   *)
(***************************************************************************)
EXTENDS MetadataStore, TLAPS

(* Gaining properties twice is gaining properties.                         *)
LEMMA ConformsTransitive ==
    ASSUME NEW a, NEW b, NEW c, Conforms(a, b), Conforms(b, c)
    PROVE  Conforms(a, c)
BY DEF Conforms

LEMMA ConformsItself == ASSUME NEW a PROVE Conforms(a, a)
BY DEF Conforms

(* A put that may not delete fields leaves every type with at least the    *)
(* properties it had, and the type it puts with at least those given.      *)
LEMMA PutExtends ==
    ASSUME NEW T, NEW name, NEW props, NEW opts,
           CanPutType(T, name, props, opts), ~opts.canDeleteFields
    PROVE  /\ DOMAIN WithType(T, name, props) = DOMAIN T \cup {name}
           /\ WithType(T, name, props)[name] = props
           /\ \A n \in DOMAIN T : Conforms(T[n], WithType(T, name, props)[n])
<1> DEFINE U == WithType(T, name, props)
<1>1. DOMAIN U = DOMAIN T \cup {name} /\ U[name] = props
  BY DEF WithType
<1>2. \A n \in DOMAIN T : n # name => U[n] = T[n]
  BY DEF WithType
<1>3. ASSUME name \in DOMAIN T PROVE Conforms(T[name], props)
  BY <1>3 DEF CanPutType, Conforms
<1>4. \A n \in DOMAIN T : Conforms(T[n], U[n])
  <2> SUFFICES ASSUME NEW n \in DOMAIN T PROVE Conforms(T[n], U[n])
    OBVIOUS
  <2>1. CASE n = name
    BY <2>1, <1>1, <1>3
  <2>2. CASE n # name
    <3>1. U[n] = T[n]
      BY <2>2, <1>2
    <3> QED
      BY <3>1 DEF Conforms
  <2> QED
    BY <2>1, <2>2
<1> QED
  BY <1>1, <1>2, <1>4

(* A put that may neither add nor delete fields changes no type.           *)
LEMMA PutRepeats ==
    ASSUME NEW T, NEW name, NEW props, props = [p \in DOMAIN props |-> props[p]],
           CanPutType(T, name, props, CreateOptions),
           \A n \in DOMAIN T : T[n] = [p \in DOMAIN T[n] |-> T[n][p]]
    PROVE  \A n \in DOMAIN T : WithType(T, name, props)[n] = T[n]
<1>1. ~CreateOptions.canDeleteFields /\ ~CreateOptions.canAddFields
  BY DEF CreateOptions
<1>2. ASSUME name \in DOMAIN T PROVE T[name] = props
  <2>1. DOMAIN T[name] = DOMAIN props /\ \A p \in DOMAIN props : props[p] = T[name][p]
    BY <1>1, <1>2 DEF CanPutType
  <2>2. T[name] = [p \in DOMAIN T[name] |-> T[name][p]]
    BY <1>2
  <2>3. props = [p \in DOMAIN props |-> props[p]]
    OBVIOUS
  <2> QED
    BY <2>1, <2>2, <2>3
<1> QED
  BY <1>2 DEF WithType
=============================================================================
