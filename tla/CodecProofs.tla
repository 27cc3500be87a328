---------------------------- MODULE CodecProofs ----------------------------
(***************************************************************************)
(* For any codecs, types and names: a codec never loses a record it        *)
(* encoded to another type, and exported content that is decoded is whole. *)
(***************************************************************************)
EXTENDS Codec, TLAPS

\* What Marshal writes is a content or nothing.
LEMMA MarshalType == \A j \in Job : Marshal(j) \in Contents \cup {Nothing}
BY DEF Marshal, Job

LEMMA TypeInitially == Init => TypeOK
BY DEF Init, TypeOK

\* Register binds a name of AllNames in the registry of one codec.
LEMMA RegisterKeepsType ==
    ASSUME TypeOK, NEW k \in Codecs, NEW given \in Names, NEW sample \in Job,
           Register(k, given, sample)
    PROVE  TypeOK'
<1> DEFINE name == IF given = "" THEN NameOf(sample) ELSE given
<1>1. name \in AllNames /\ sample.type \in Type
  BY DEF AllNames, Job
<1>2. types' = [types EXCEPT ![k][name] = sample.type]
  BY DEF Register
<1>3. types' \in [Codecs -> [AllNames -> Type \cup {Nothing}]]
  BY <1>1, <1>2 DEF TypeOK
<1> QED
  BY <1>3 DEF Register, TypeOK

LEMMA EncodeKeepsType ==
    ASSUME TypeOK, NEW k \in Codecs, NEW j \in Job, Encode(k, j)
    PROVE  TypeOK'
<1>1. NameOf(j) \in AllNames
  BY DEF AllNames
<1>2. [name |-> NameOf(j), payload |-> Marshal(j), job |-> j, by |-> k] \in Encoded
  BY <1>1, MarshalType DEF Encoded
<1> QED
  BY <1>2 DEF Encode, TypeOK

\* What is decoded is a pointer.
LEMMA DecodeKeepsType ==
    ASSUME TypeOK, NEW k \in Codecs, NEW r \in saved, Decode(k, r)
    PROVE  TypeOK'
<1>1. r \in Encoded /\ types[k][r.name] \in Type
  <2>1. r \in Encoded
    BY DEF TypeOK
  <2>2. r.name \in AllNames
    BY <2>1 DEF Encoded
  <2> QED
    BY <2>1, <2>2 DEF Decode, TypeOK
<1>2. PICK j \in Unmarshal(types[k][r.name], r) :
          decoded' = [decoded EXCEPT ![k] = [job |-> j, from |-> r]]
  BY DEF Decode
<1>3. j \in Job /\ j.type = NewValue(types[k][r.name])
  BY <1>2 DEF Unmarshal
<1>4. j.type.pointer
  BY <1>1, <1>3 DEF NewValue, Type
<1>5. [job |-> j, from |-> r] \in [job : {i \in Job : i.type.pointer}, from : Encoded]
  BY <1>1, <1>3, <1>4
<1> QED
  BY <1>2, <1>5 DEF Decode, TypeOK

\* Registries bind names to types, and every decoded job is a pointer, whatever
\* the codecs register.
THEOREM CodecTypeCorrect == Spec => []TypeOK
<1>1. TypeOK /\ [Next]_vars => TypeOK'
  <2> SUFFICES ASSUME TypeOK, [Next]_vars PROVE TypeOK'
    OBVIOUS
  <2>1. CASE UNCHANGED vars
    BY <2>1 DEF vars, TypeOK
  <2>2. ASSUME NEW k \in Codecs, NEW name \in Names, NEW sample \in Job,
               Register(k, name, sample)
        PROVE  TypeOK'
    BY <2>2, RegisterKeepsType
  <2>3. ASSUME NEW k \in Codecs, NEW j \in Job, Encode(k, j) PROVE TypeOK'
    BY <2>3, EncodeKeepsType
  <2>4. ASSUME NEW k \in Codecs, NEW r \in saved, Decode(k, r) PROVE TypeOK'
    BY <2>4, DecodeKeepsType
  <2> QED
    BY <2>1, <2>2, <2>3, <2>4 DEF Next
<1> QED
  BY <1>1, TypeInitially, PTL DEF Spec

\* A registration that conflicts with what a codec has encoded is refused.
LEMMA RegisterKeepsOwnRecords ==
    ASSUME TypeOK, OwnRecordsComeBack,
           NEW k \in Codecs, NEW given \in Names, NEW sample \in Job,
           Register(k, given, sample)
    PROVE  OwnRecordsComeBack'
<1> DEFINE name == IF given = "" THEN NameOf(sample) ELSE given
<1>1. types' = [types EXCEPT ![k][name] = sample.type] /\ saved' = saved
  BY DEF Register
<1>2. types[k][name] \in {Nothing, sample.type}
  BY DEF Register, Free
<1> SUFFICES ASSUME NEW r \in saved PROVE types'[r.by][r.name] = r.job.type
  BY <1>1 DEF OwnRecordsComeBack
<1>3. r.by \in Codecs /\ r.name \in AllNames /\ r.job.type \in Type
  BY DEF TypeOK, Encoded, Job
<1>4. types[r.by][r.name] = r.job.type
  BY DEF OwnRecordsComeBack
<1>5. CASE r.by = k /\ r.name = name
  <2>1. r.job.type # Nothing
    BY <1>3, ZeroAssumption DEF Type
  <2>2. sample.type = r.job.type
    BY <1>2, <1>4, <1>5, <2>1
  <2> QED
    BY <1>1, <1>3, <1>5, <2>2 DEF TypeOK
<1>6. CASE ~(r.by = k /\ r.name = name)
  BY <1>1, <1>3, <1>4, <1>6 DEF TypeOK
<1> QED
  BY <1>5, <1>6

\* The record was encoded under a name that is bound to its own type.
LEMMA EncodeKeepsOwnRecords ==
    ASSUME OwnRecordsComeBack, NEW k \in Codecs, NEW j \in Job, Encode(k, j)
    PROVE  OwnRecordsComeBack'
<1>1. types[k][NameOf(j)] = j.type
  BY DEF Encode, Known
<1> QED
  BY <1>1 DEF Encode, OwnRecordsComeBack

\* Whatever other types, names and codecs there are, what a codec has encoded
\* it can decode for the rest of its life, as the type it was.
THEOREM OwnRecordsAlwaysComeBack == Spec => []OwnRecordsComeBack
<1>1. Init => OwnRecordsComeBack
  BY DEF Init, OwnRecordsComeBack
<1>2. TypeOK /\ OwnRecordsComeBack /\ [Next]_vars => OwnRecordsComeBack'
  <2> SUFFICES ASSUME TypeOK, OwnRecordsComeBack, [Next]_vars PROVE OwnRecordsComeBack'
    OBVIOUS
  <2>1. CASE UNCHANGED <<types, saved>>
    BY <2>1 DEF OwnRecordsComeBack
  <2>2. ASSUME NEW k \in Codecs, NEW name \in Names, NEW sample \in Job,
               Register(k, name, sample)
        PROVE  OwnRecordsComeBack'
    BY <2>2, RegisterKeepsOwnRecords
  <2>3. ASSUME NEW k \in Codecs, NEW j \in Job, Encode(k, j) PROVE OwnRecordsComeBack'
    BY <2>3, EncodeKeepsOwnRecords
  <2> QED
    BY <2>1, <2>2, <2>3 DEF Next, Decode, vars
<1> QED
  BY <1>1, <1>2, CodecTypeCorrect, PTL DEF Spec

---------------------------------------------------------------------------
(* What a payload has lost depends on the registry that let its type in.   *)

\* Types without an exported field are in no registry, and nothing was encoded
\* from one; a payload is what Marshal makes of its job.
NothingHidden ==
    /\ \A k \in Codecs, name \in AllNames :
        types[k][name] # Nothing => Shape[types[k][name].struct] # "hidden"
    /\ \A r \in saved : r.payload = Marshal(r.job) /\ Shape[r.job.type.struct] # "hidden"

LEMMA RegisterHidesNothing ==
    ASSUME TypeOK, NothingHidden,
           NEW k \in Codecs, NEW given \in Names, NEW sample \in Job,
           Register(k, given, sample)
    PROVE  NothingHidden'
<1> DEFINE name == IF given = "" THEN NameOf(sample) ELSE given
<1>1. types' = [types EXCEPT ![k][name] = sample.type] /\ saved' = saved
  BY DEF Register
<1>2. Shape[sample.type.struct] # "hidden"
  BY DEF Register, Serializable, Marshal
<1>3. ASSUME NEW l \in Codecs, NEW n \in AllNames, types'[l][n] # Nothing
      PROVE  Shape[types'[l][n].struct] # "hidden"
  <2>1. CASE l = k /\ n = name
    BY <1>1, <1>2, <2>1 DEF TypeOK
  <2>2. CASE ~(l = k /\ n = name)
    BY <1>1, <1>3, <2>2 DEF TypeOK, NothingHidden
  <2> QED
    BY <2>1, <2>2
<1> QED
  BY <1>1, <1>3 DEF NothingHidden

LEMMA EncodeHidesNothing ==
    ASSUME TypeOK, NothingHidden, NEW k \in Codecs, NEW j \in Job, Encode(k, j)
    PROVE  NothingHidden'
<1>1. types[k][NameOf(j)] = j.type /\ NameOf(j) \in AllNames
  BY DEF Encode, Known, AllNames
<1>2. j.type # Nothing
  BY ZeroAssumption DEF Job, Type
<1>3. Shape[j.type.struct] # "hidden"
  BY <1>1, <1>2 DEF NothingHidden
<1> QED
  BY <1>3 DEF Encode, NothingHidden

\* The step at which content could be lost.
LEMMA DecodeKeepsContent ==
    ASSUME TypeOK, NothingHidden, ContentSurvives,
           NEW k \in Codecs, NEW r \in saved, Decode(k, r)
    PROVE  ContentSurvives'
<1> DEFINE type == types[k][r.name]
<1>1. PICK j \in Unmarshal(type, r) : decoded' = [decoded EXCEPT ![k] = [job |-> j, from |-> r]]
  BY DEF Decode
<1>2. r.job \in Job /\ r.payload = Marshal(r.job) /\ Shape[r.job.type.struct] # "hidden"
  BY DEF TypeOK, NothingHidden, Encoded
<1>3. j.hidden = Zero /\ j.type.struct = type.struct
  <2>1. r.name \in AllNames
    BY DEF TypeOK, Encoded
  <2>2. type \in Type
    BY <2>1 DEF Decode, TypeOK
  <2>3. j.hidden = Zero /\ j.type = NewValue(type)
    BY <1>1 DEF Unmarshal
  <2>4. NewValue(type).struct = type.struct
    BY <2>2 DEF NewValue, Type
  <2> QED
    BY <2>3, <2>4
<1>4. ASSUME j.type.struct = r.job.type.struct
      PROVE  /\ j.exported = r.job.exported
             /\ j.hidden = r.job.hidden \/ Shape[j.type.struct] \in {"both", "mixed"}
  <2>1. j.exported = IF r.payload = Nothing THEN Zero ELSE r.payload
    BY <1>1, <1>3, <1>4 DEF Unmarshal
  <2>2. r.payload = Nothing => r.job.exported = Zero
    BY <1>2, ZeroAssumption DEF Marshal, Job
  <2>3. r.payload # Nothing => r.payload = r.job.exported
    BY <1>2 DEF Marshal
  <2>4. r.job.type.struct \in Structs
    BY <1>2 DEF Job, Type
  <2>5. Shape[r.job.type.struct] \in {"exported", "omitempty", "both", "mixed"}
    BY <1>2, <2>4, ShapeAssumption
  <2>6. Shape[r.job.type.struct] \notin {"both", "mixed"} => r.job.hidden = Zero
    BY <1>2, <2>5 DEF Job
  <2> QED
    BY <1>3, <1>4, <2>1, <2>2, <2>3, <2>6
<1>5. ASSUME NEW l \in Codecs
      PROVE  decoded'[l] = IF l = k THEN [job |-> j, from |-> r] ELSE decoded[l]
  BY <1>1 DEF TypeOK
<1> QED
  BY <1>4, <1>5 DEF ContentSurvives

\* Whatever the shapes of the structs and whatever is registered under the same
\* name, a job that is decoded as the struct it was has all its exported
\* content, and a struct that has only hidden fields never gets that far: what
\* is lost is the hidden field of a struct that has an exported one too.
THEOREM ContentAlwaysSurvives == Spec => []ContentSurvives
<1> DEFINE Inv == NothingHidden /\ ContentSurvives
<1>1. Init => Inv
  BY DEF Init, NothingHidden, ContentSurvives
<1>2. TypeOK /\ Inv /\ [Next]_vars => Inv'
  <2> SUFFICES ASSUME TypeOK, NothingHidden, ContentSurvives, [Next]_vars PROVE Inv'
    OBVIOUS
  <2>1. CASE UNCHANGED vars
    BY <2>1 DEF vars, NothingHidden, ContentSurvives
  <2>2. ASSUME NEW k \in Codecs, NEW name \in Names, NEW sample \in Job,
               Register(k, name, sample)
        PROVE  Inv'
    <3>1. NothingHidden'
      BY <2>2, RegisterHidesNothing
    <3>2. ContentSurvives'
      BY <2>2 DEF Register, ContentSurvives
    <3> QED
      BY <3>1, <3>2
  <2>3. ASSUME NEW k \in Codecs, NEW j \in Job, Encode(k, j) PROVE Inv'
    <3>1. NothingHidden'
      BY <2>3, EncodeHidesNothing
    <3>2. ContentSurvives'
      BY <2>3 DEF Encode, ContentSurvives
    <3> QED
      BY <3>1, <3>2
  <2>4. ASSUME NEW k \in Codecs, NEW r \in saved, Decode(k, r) PROVE Inv'
    <3>1. NothingHidden'
      BY <2>4 DEF Decode, NothingHidden
    <3>2. ContentSurvives'
      BY <2>4, DecodeKeepsContent
    <3> QED
      BY <3>1, <3>2
  <2> QED
    BY <2>1, <2>2, <2>3, <2>4 DEF Next
<1> QED
  BY <1>1, <1>2, CodecTypeCorrect, PTL DEF Spec
===========================================================================
