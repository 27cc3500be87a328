------------------------------- MODULE Codec -------------------------------
(***************************************************************************)
(* The codecs of backend/codec.go and the records that outlive them.  The  *)
(* registry of a codec is lost with its process: each process that encodes *)
(* or decodes jobs, before or after a restart, is a codec of its own.      *)
(*                                                                         *)
(* A job is a struct or a pointer to one, with an exported and a hidden    *)
(* field, or only one of them.  The exported one may be tagged omitempty,  *)
(* also next to a hidden one (the shape is then "mixed").  encoding/json   *)
(* writes exported fields only, and nothing that says what type they are.  *)
(***************************************************************************)
EXTENDS Integers, FiniteSets

CONSTANTS
    Codecs,
    Structs,     \* the struct types that jobs are made of
    Shape,       \* which fields each struct has
    TypeName,    \* its name without the package, so that several may have one
    GivenName,   \* what its Name method returns for each content, "" if there is none
    Contents,    \* values of a field
    Zero,
    Names,       \* the names that callers pass to Register, "" for none
    MaxRecords,  \* bound: how many jobs are encoded
    Nothing

ASSUME ShapeAssumption ==
    Shape \in [Structs -> {"exported", "omitempty", "both", "mixed", "hidden"}]
ASSUME NameAssumption ==
    /\ TypeName \in [Structs -> STRING]
    /\ GivenName \in [Structs -> [Contents -> STRING]]
    /\ Names \subseteq STRING
ASSUME ZeroAssumption ==
    /\ Zero \in Contents
    /\ Nothing \notin Contents \cup [struct : Structs, pointer : BOOLEAN]

Type == [struct : Structs, pointer : BOOLEAN]

Job == {j \in [type : Type, exported : Contents, hidden : Contents] :
            /\ Shape[j.type.struct] = "hidden" => j.exported = Zero
            /\ Shape[j.type.struct] \in {"exported", "omitempty"} => j.hidden = Zero}

\* job.NameOf.
NameOf(j) ==
    LET given == GivenName[j.type.struct][j.exported]
        own == TypeName[j.type.struct]
    IN  IF given # "" THEN given ELSE IF own # "" THEN own ELSE "anonymous"

AllNames == Names \cup {NameOf(j) : j \in Job}

\* json.Marshal; {} has no content.
Marshal(j) ==
    IF \/ Shape[j.type.struct] = "hidden"
       \/ Shape[j.type.struct] \in {"omitempty", "mixed"} /\ j.exported = Zero
    THEN Nothing ELSE j.exported

\* A job as encoded; history: the job, and the codec.
Encoded == [name : AllNames, payload : Contents \cup {Nothing}, job : Job, by : Codecs]

VARIABLES
    types,   \* the registry of each codec
    saved,   \* the encoded jobs
    decoded  \* the job that each codec decoded last, and what from

vars == <<types, saved, decoded>>

TypeOK ==
    /\ types \in [Codecs -> [AllNames -> Type \cup {Nothing}]]
    /\ saved \subseteq Encoded
    /\ decoded \in [Codecs -> [job : {j \in Job : j.type.pointer}, from : Encoded] \cup {Nothing}]

Init ==
    /\ types = [k \in Codecs |-> [name \in AllNames |-> Nothing]]
    /\ saved = {}
    /\ decoded = [k \in Codecs |-> Nothing]

---------------------------------------------------------------------------

\* Fault: every type that json.Marshal takes.
SerializableAnyway(sample) == TRUE

\* A struct that has fields must not marshal to {}.
Serializable(sample) == Marshal(sample) # Nothing

\* Fault: the last registration of a name counts.
FreeAlways(k, name, type) == TRUE

\* The name is not bound to another type.
Free(k, name, type) == types[k][name] \in {Nothing, type}

Register(k, given, sample) ==
    LET name == IF given = "" THEN NameOf(sample) ELSE given IN
    /\ Serializable(sample)
    /\ Free(k, name, sample.type)
    /\ types' = [types EXCEPT ![k][name] = sample.type]
    /\ UNCHANGED <<saved, decoded>>

\* Fault: any type may use the name.
KnownName(k, j) == types[k][NameOf(j)] # Nothing

\* Its name is bound to its own type.
Known(k, j) == types[k][NameOf(j)] = j.type

Encode(k, j) ==
    /\ Known(k, j)
    /\ Cardinality(saved) < MaxRecords
    /\ saved' = saved \cup {[name |-> NameOf(j), payload |-> Marshal(j), job |-> j, by |-> k]}
    /\ UNCHANGED <<types, decoded>>

\* Fault: a value type gives a value.
NewLikeRegistered(type) == type

\* The type of newValue, always a pointer.
NewValue(type) == [type EXCEPT !.pointer = TRUE]

\* json.Unmarshal into a new value: what is not in the payload stays zero.  Fields
\* of another struct may fit or not.
Unmarshal(type, r) ==
    {j \in Job :
        /\ j.type = NewValue(type)
        /\ j.hidden = Zero
        /\ type.struct = r.job.type.struct \/ r.payload = Nothing =>
               j.exported = IF r.payload = Nothing THEN Zero ELSE r.payload}

Decode(k, r) ==
    /\ types[k][r.name] # Nothing
    /\ \E j \in Unmarshal(types[k][r.name], r) :
          decoded' = [decoded EXCEPT ![k] = [job |-> j, from |-> r]]
    /\ UNCHANGED <<types, saved>>

Next == \E k \in Codecs :
    \/ \E name \in Names, sample \in Job : Register(k, name, sample)
    \/ \E j \in Job : Encode(k, j)
    \/ \E r \in saved : Decode(k, r)

Spec == Init /\ [][Next]_vars

---------------------------------------------------------------------------

\* What a codec has encoded it can decode for the rest of its life, as the type
\* it was: other types of the same name, custom names, and jobs whose Name
\* method borrows a name are all kept from taking it over.
OwnRecordsComeBack ==
    \A r \in saved : types[r.by][r.name] = r.job.type

\* Decoded by any codec that has bound the name to the struct it came from, a
\* job has all its exported content, whether or not a zero was left out of the
\* payload, and Register keeps out the structs that have nothing but hidden
\* fields: hidden content is lost only next to an exported field.  There it is,
\* even without a trace: the payload of a mixed struct may be {} although the
\* sample of Register had something to show.
ContentSurvives ==
    \A k \in Codecs : decoded[k] # Nothing =>
        LET j == decoded[k].job
            original == decoded[k].from.job
        IN  j.type.struct = original.type.struct =>
                /\ j.exported = original.exported
                /\ j.hidden = original.hidden \/ Shape[j.type.struct] \in {"both", "mixed"}
=============================================================================
