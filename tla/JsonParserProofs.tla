-------------------------- MODULE JsonParserProofs --------------------------
(***************************************************************************)
(* Theorems about JsonParser for every set of keys, values and documents,  *)
(* every width and every bound on the number of lookups.                   *)
(***************************************************************************)
EXTENDS JsonParser, FiniteSetTheorems, SequenceTheorems, TLAPS

-----------------------------------------------------------------------------
(* Types of values, conversions and lookups *)

Types == NumberTypes \cup {"bool", "string", "JsonDataObject", "JValue"}

CheckNames == {"min", "max", "allowedValues"}

LEMMA KindOfValue ==
  /\ \A v \in Values : v.kind \in Kinds \ {"malformed", "undefined"}
  /\ Null \in Values \cup {Null} /\ Null.kind = "null" /\ Malformed.kind = "malformed"
  /\ \A v \in Values : v.kind = "string" => v.content \in Values \cup {Malformed}
  /\ \A v \in Values : v.kind = "array" => v.items \in Seq(Values)
<1>1. \A v \in Values : IsValue(v, Values)
  BY DocumentsAssumption
<1>2. /\ Null.kind = "null" /\ Malformed.kind = "malformed" /\ Boolean.kind = "bool"
      /\ \A x : /\ Object(x).kind = "object" /\ Number(x).kind = "number"
                /\ Text(x).kind = "string" /\ ArrayOf(x).kind = "array"
  BY DEF Null, Malformed, Boolean, Object, Number, Text, ArrayOf
<1>3. ASSUME NEW v \in Values
      PROVE  /\ v.kind \in Kinds \ {"malformed", "undefined"}
             /\ v.kind = "string" => v.content \in Values \cup {Malformed}
             /\ v.kind = "array" => v.items \in Seq(Values)
  BY <1>1, <1>2 DEF IsValue, Kinds
<1> QED
  BY <1>2, <1>3

LEMMA ConversionType ==
  ASSUME NEW type \in Types, NEW v, v.kind \in Kinds, NEW lib
  PROVE  /\ ParseValue(type, v, lib).ok \in BOOLEAN
         /\ ParseValue(type, v, lib).value.kind \in Kinds
<1>1. /\ Failed.ok = FALSE /\ Failed.value.kind = "null"
      /\ Undefined.kind = "undefined"
      /\ \A x : Stored(x).ok = TRUE /\ Stored(x).value = x
      /\ \A x : Number(x).kind = "number"
  BY DEF Failed, Stored, Null, Number, Undefined
<1>2. ASSUME NEW twice, type \in NumberTypes
      PROVE  /\ ParseNumber(type, twice, lib).ok \in BOOLEAN
             /\ ParseNumber(type, twice, lib).value.kind \in Kinds
  <2>1. \A lo, hi : /\ ParseNarrow(lo, hi, twice).ok \in BOOLEAN
                    /\ ParseNarrow(lo, hi, twice).value.kind \in {"null", "number"}
    BY <1>1 DEF ParseNarrow
  <2>a. CASE type = "uint8"
    BY <2>1, <2>a DEF ParseNumber, Kinds
  <2>b. CASE type = "int8"
    BY <2>1, <2>b DEF ParseNumber, Kinds
  <2>2. CASE type = "int32"
    BY <2>2, <1>1 DEF ParseNumber, ParseWide, AsSigned, Kinds
  <2>c. /\ ParseLong(twice, lib.lossReported).ok \in BOOLEAN
        /\ ParseLong(twice, lib.lossReported).value.kind \in {"null", "number", "undefined"}
    <3> DEFINE value == IF AsDouble(twice, lib.lossReported).twice <= 2 * (Pow2(Long) - 1)
                        THEN Number(AsDouble(twice, lib.lossReported).twice) ELSE Undefined
    <3>1. value.kind \in {"number", "undefined"}
      BY <1>1
    <3>2. ParseLong(twice, lib.lossReported) \in {Failed, Stored(value)}
      BY DEF ParseLong
    <3> HIDE DEF value
    <3> QED
      BY <1>1, <3>1, <3>2
  <2>3. CASE type = "uint64"
    BY <2>3, <2>c DEF ParseNumber, Kinds
  <2>4. CASE type = "double"
    <3>1. ParseNumber(type, twice, lib) = Stored(Number(DoubleOf(twice)))
      BY <2>4 DEF ParseNumber
    <3>2. \A x : Stored(Number(x)).ok = TRUE /\ Stored(Number(x)).value.kind = "number"
      BY <1>1
    <3>3. /\ ParseNumber(type, twice, lib).ok = TRUE
          /\ ParseNumber(type, twice, lib).value.kind = "number"
      BY <3>1, <3>2, Zenon
    <3> QED
      BY <3>3 DEF Kinds
  <2> QED
    BY <1>2, <2>a, <2>b, <2>2, <2>3, <2>4 DEF NumberTypes
<1>3. CASE type \in NumberTypes
  BY <1>1, <1>2, <1>3 DEF ParseValue, Kinds
<1>4. CASE type \in {"bool", "string", "JsonDataObject", "JValue"}
  BY <1>1, <1>4 DEF ParseValue, Kinds, NumberTypes
<1> QED
  BY <1>3, <1>4 DEF Types

\* What a lookup returns.
IsFound(found) ==
  /\ found \in [read : BOOLEAN, null : BOOLEAN, error : BOOLEAN,
                from : {"untouched", "failed", "field"}, value : {found.value}]
  /\ found.value.kind \in Kinds
  /\ found.read => ~found.null

LEMMA FoundType ==
  /\ \A null, error \in BOOLEAN :
       null \in BOOLEAN => IsFound(NotRead(null, error))
  /\ \A v : v.kind \in Kinds => IsFound(Read(v))
<1>1. Null.kind = "null"
  BY DEF Null
<1> QED
  BY <1>1 DEF IsFound, NotRead, Read, Kinds

LEMMA GetType ==
  ASSUME NEW type \in Types, NEW hasKey \in BOOLEAN, NEW v, v.kind \in Kinds,
         NEW lib \in Library
  PROVE  IsFound(GetImpl(type, hasKey, v, lib))
<1>1. /\ ParseValue(type, v, lib).ok \in BOOLEAN
      /\ ParseValue(type, v, lib).value.kind \in Kinds
  BY ConversionType
<1>2. Null.kind \in Kinds
  BY DEF Null, Kinds
<1> QED
  BY <1>1, <1>2 DEF GetImpl, IsFound, NotRead, Read

LEMMA LookupType ==
  ASSUME NEW request \in Requests, NEW hasKey \in BOOLEAN,
         NEW v \in Values \cup {Null}, NEW lib \in Library
  PROVE  IsFound(Lookup(request, hasKey, v, lib))
<1> DEFINE type == request[2]
<1>1. v.kind \in Kinds /\ Null.kind \in Kinds /\ Malformed.kind \in Kinds
  BY KindOfValue DEF Kinds
<1>2. type \in Types /\ "string" \in Types /\ "JValue" \in Types
  BY DEF Requests, Types, NumberTypes
<1>3. CASE request[1] = "get"
  BY <1>1, <1>2, <1>3, GetType DEF Lookup, GetValue
<1>4. CASE request[1] = "getFromString"
  <2> DEFINE inner == GetImpl("string", hasKey, v, lib)
  <2>1. IsFound(inner)
    BY <1>1, <1>2, GetType
  <2>2. inner.read => inner.value = v /\ v.kind = "string"
    BY DEF GetImpl, NotRead, Read, ParseValue, Stored, Failed, NumberTypes
  <2>3. v.kind = "string" => v.content.kind \in Kinds
    BY KindOfValue DEF Kinds
  <2>4. inner.read => IsFound(GetImpl(type, TRUE, v.content, lib))
    BY <2>2, <2>3, <1>2, GetType
  <2>5. IsFound(NotRead(FALSE, InnerError(inner)))
    BY <2>1, FoundType DEF InnerError, IsFound
  <2>6. Lookup(request, hasKey, v, lib) = GetFromString(type, hasKey, v, lib)
    BY <1>4 DEF Lookup
  <2>7. CASE inner.read
    BY <2>2, <2>4, <2>6, <2>7 DEF GetFromString
  <2>8. CASE ~inner.read
    BY <2>5, <2>6, <2>8 DEF GetFromString
  <2> QED
    BY <2>7, <2>8
<1>5. CASE request[1] = "getAndMap"
  <2> DEFINE inner == GetImpl(type, hasKey, v, lib)
  <2>1. IsFound(inner)
    BY <1>1, <1>2, GetType
  <2>2. IsFound(NotRead(FALSE, InnerError(inner))) /\ IsFound(NotRead(FALSE, TRUE))
    BY <2>1, FoundType DEF InnerError, IsFound
  <2>3. inner.value \in DOMAIN ValueMap => IsFound(Read(ValueMap[inner.value]))
    BY FoundType DEF ValueMap, Number, Kinds
  <2>4. Lookup(request, hasKey, v, lib) = GetAndMap(type, hasKey, v, lib)
    BY <1>5 DEF Lookup
  <2> HIDE DEF inner
  <2> QED
    BY <2>2, <2>3, <2>4 DEF GetAndMap, inner
<1>6. CASE request[1] = "getArray"
  <2> DEFINE inner == GetImpl("JValue", hasKey, v, lib)
             items == [i \in DOMAIN v.items |-> GetImpl(type, TRUE, v.items[i], lib)]
             all == ArrayOf([i \in DOMAIN items |-> items[i].value])
             error == \E i \in DOMAIN items : ~items[i].read
  <2>1. IsFound(inner)
    BY <1>1, <1>2, GetType
  <2>2. IsFound(NotRead(FALSE, InnerError(inner)))
    BY <2>1, FoundType DEF InnerError, IsFound
  <2>3. IsFound([Read(v) EXCEPT !.error = TRUE, !.from = "untouched"])
    BY <1>1 DEF IsFound, Read
  <2>4. all.kind = "array" /\ error \in BOOLEAN
    BY DEF ArrayOf
  <2> HIDE DEF items, all, error
  <2>5. IsFound([Read(all) EXCEPT !.error = error])
    BY <2>4 DEF IsFound, Read, Kinds
  <2>6. Lookup(request, hasKey, v, lib) = GetArray(type, hasKey, v, lib)
    BY <1>6 DEF Lookup
  <2>7. GetArray(type, hasKey, v, lib) =
          IF ~inner.read THEN NotRead(FALSE, InnerError(inner))
          ELSE IF v.kind # "array" THEN [Read(v) EXCEPT !.error = TRUE, !.from = "untouched"]
          ELSE [Read(all) EXCEPT !.error = error]
    BY DEF GetArray, items, all, error
  <2> QED
    BY <2>2, <2>3, <2>5, <2>6, <2>7
<1> QED
  BY <1>3, <1>4, <1>5, <1>6 DEF Requests

-----------------------------------------------------------------------------
(* Types *)

Lookups == [key : Keys, verdict : {"valid", "invalid", "either"}]

\* Lookups begun: the one whose context is still there included.
Begun == Len(lookups) + (IF field.open THEN 1 ELSE 0)

FieldType ==
  /\ field \in [open : BOOLEAN, key : Keys \cup {NoError}, request : Requests,
                read : BOOLEAN, null : BOOLEAN, copied : BOOLEAN, optional : BOOLEAN,
                allowNull : BOOLEAN, from : {"untouched", "failed", "default", "field"},
                value : {field.value}, default : BOOLEAN, checks : SUBSET CheckNames]
  /\ field.value.kind \in Kinds
  /\ field.read => ~field.null
  /\ field.open => field.key \in Keys

(* Every field found is counted once, with its lookup.                     *)
TypeInv ==
  /\ doc \in Documents
  /\ FieldType
  /\ lookups \in Seq(Lookups)
  /\ parseError \in Keys \cup {NoError, "malformed", "strict"}
  /\ numberOfFields \in Nat /\ numberOfFields <= Begun /\ Begun <= MaxFields(doc)
  /\ cleared \in Int /\ -1 <= cleared /\ cleared <= Len(lookups)
  /\ outcome \in {"none", "accepted", "acceptedStrictly", "refused"}

LEMMA NoFieldType ==
  /\ NoField \in [open : {FALSE}, key : {NoError}, request : Requests, read : {FALSE},
                  null : {FALSE}, copied : {FALSE}, optional : {FALSE},
                  allowNull : {FALSE}, from : {"untouched"}, value : {Null},
                  default : {FALSE}, checks : SUBSET CheckNames]
  /\ Null.kind \in Kinds
<1>1. <<"get", "JValue">> \in Requests
  BY DEF Requests
<1> QED
  BY <1>1 DEF NoField, Null, Kinds

LEMMA DocumentShape ==
  \A d \in Documents :
    /\ MaxFields(d) \in Nat
    /\ d.kind \in {"document", "malformed"} /\ (d.kind = "malformed" <=> d = Malformed)
    /\ d.kind = "document" =>
         /\ IsFiniteSet(DOMAIN d.fields)
         /\ \A key \in DOMAIN d.fields : d.fields[key] \in Values
<1>1. Malformed.kind = "malformed" /\ \A f : Document(f).kind = "document"
  BY DEF Malformed, Document
<1> QED
  BY <1>1, DocumentsAssumption

LEMMA ValueType ==
  doc \in Documents => \A key \in Keys : ValueAt(key) \in Values \cup {Null} /\ Has(key) \in BOOLEAN
BY DocumentShape DEF ValueAt, Has

LEMMA TypeInit == Init => TypeInv
<1> SUFFICES ASSUME Init PROVE TypeInv
  OBVIOUS
<1>1. FieldType
  BY NoFieldType DEF Init, FieldType
<1>2. lookups \in Seq(Lookups) /\ Len(lookups) = 0
  BY EmptySeq DEF Init
<1>3. ~field.open
  BY NoFieldType DEF Init
<1> QED
  BY <1>1, <1>2, <1>3, DocumentShape DEF Init, TypeInv, Begun

LEMMA TypeNext == TypeInv /\ [Next]_vars => TypeInv'
<1> SUFFICES ASSUME TypeInv, [Next]_vars PROVE TypeInv'
  OBVIOUS
<1>t. /\ doc \in Documents /\ FieldType /\ lookups \in Seq(Lookups)
      /\ parseError \in Keys \cup {NoError, "malformed", "strict"}
      /\ outcome \in {"none", "accepted", "acceptedStrictly", "refused"}
  BY DEF TypeInv
<1>n. /\ Len(lookups) \in Nat /\ MaxFields(doc) \in Nat
      /\ Begun = Len(lookups) + (IF field.open THEN 1 ELSE 0)
      /\ field.open \in BOOLEAN
      /\ numberOfFields \in Nat /\ numberOfFields <= Begun /\ Begun <= MaxFields(doc)
      /\ cleared \in Int /\ -1 <= cleared /\ cleared <= Len(lookups)
  BY DocumentShape, LenProperties DEF Begun, FieldType, TypeInv
<1>m. MaxFields(doc)' = MaxFields(doc)
  <2>1. doc' = doc
    BY DEF Next, ChainStep, vars, Get, GetObject, EndField, CopyContext, Optional, AllowNull,
           DefaultValue, Check, ClearError, FinishParse
  <2> QED
    BY <2>1
<1>a. ASSUME NEW key \in Keys, NEW verdict \in {"valid", "invalid", "either"},
             lookups' = Append(lookups, [key |-> key, verdict |-> verdict])
      PROVE  lookups' \in Seq(Lookups) /\ Len(lookups') = Len(lookups) + 1
  <2>1. [key |-> key, verdict |-> verdict] \in Lookups
    BY DEF Lookups
  <2> QED
    BY <1>a, <1>t, <2>1, AppendProperties
<1>e. \A who \in Keys \cup {"strict"}, failed \in BOOLEAN :
        RecordError(who, failed) => parseError' \in Keys \cup {NoError, "malformed", "strict"}
  BY <1>t DEF RecordError
<1>c. \A key \in Keys : CountField(key) => numberOfFields' \in {numberOfFields, numberOfFields + 1}
  <2> SUFFICES ASSUME NEW key \in Keys, CountField(key)
               PROVE  numberOfFields' \in {numberOfFields, numberOfFields + 1}
    OBVIOUS
  <2>1. CASE Has(key)
    BY <2>1 DEF CountField
  <2>2. CASE ~Has(key)
    BY <2>2, <1>n DEF CountField
  <2> QED
    BY <2>1, <2>2
<1>1. ASSUME NEW key \in Keys, NEW request \in Requests, Get(key, request)
      PROVE  TypeInv'
  <2>1. PICK lib \in Library :
          LET found == Lookup(request, Has(key), ValueAt(key), lib)
          IN /\ field' = [NoField EXCEPT !.open = TRUE, !.key = key,
                            !.request = request, !.read = found.read,
                            !.null = found.null, !.from = found.from,
                            !.value = found.value]
             /\ RecordError(key, found.error)
    BY <1>1 DEF Get
  <2>2. IsFound(Lookup(request, Has(key), ValueAt(key), lib))
    BY <1>t, LookupType, ValueType
  <2>3. PICK found : /\ IsFound(found) /\ RecordError(key, found.error)
                     /\ field' = [NoField EXCEPT !.open = TRUE, !.key = key,
                            !.request = request, !.read = found.read,
                            !.null = found.null, !.from = found.from,
                            !.value = found.value]
    BY <2>1, <2>2
  <2>4. FieldType' /\ field'.open
    BY <2>3, NoFieldType DEF FieldType, IsFound
  <2>5. parseError' \in Keys \cup {NoError, "malformed", "strict"}
    BY <2>3, <1>e DEF IsFound
  <2>6. Begun' = Len(lookups) + 1
    BY <1>1, <2>4 DEF Begun, Get
  <2> QED
    BY <1>1, <1>t, <1>n, <1>m, <1>c, <2>4, <2>5, <2>6 DEF Get, Between, TypeInv
<1>2. ASSUME NEW key \in Keys, GetObject(key)
      PROVE  TypeInv'
  <2>1. PICK verdict \in {"valid", "invalid"} :
          lookups' = Append(lookups, [key |-> key, verdict |-> verdict])
    BY <1>2 DEF GetObject
  <2>2. lookups' \in Seq(Lookups) /\ Len(lookups') = Len(lookups) + 1
    BY <2>1, <1>a
  <2>3. FieldType' /\ ~field'.open
    BY <1>2, NoFieldType DEF FieldType, GetObject
  <2>4. parseError' \in Keys \cup {NoError, "malformed", "strict"}
    BY <1>2, <1>e DEF GetObject
  <2>5. Begun' = Len(lookups) + 1
    BY <2>2, <2>3, <1>n DEF Begun
  <2> QED
    BY <1>2, <1>n, <1>m, <1>c, <2>2, <2>3, <2>4, <2>5, <1>t DEF GetObject, Between, TypeInv
<1>3. CASE EndField
  <2>1. PICK verdict \in {"valid", "invalid", "either"} :
          lookups' = Append(lookups, [key |-> field.key, verdict |-> verdict])
    BY <1>3 DEF EndField, Verdict
  <2>2. lookups' \in Seq(Lookups) /\ Len(lookups') = Len(lookups) + 1
    BY <2>1, <1>3, <1>a, <1>t DEF FieldType, EndField, InChain
  <2>3. FieldType' /\ ~field'.open
    BY <1>3, <1>t DEF FieldType, EndField
  <2>4. parseError' \in Keys \cup {NoError, "malformed", "strict"}
    BY <1>3, <1>e, <1>t DEF EndField, FinishField, FieldType, InChain
  <2>5. Begun' = Begun
    BY <1>3, <2>2, <2>3, <1>n DEF Begun, EndField, InChain
  <2> QED
    BY <1>3, <1>t, <1>n, <1>m, <2>2, <2>3, <2>4, <2>5 DEF EndField, TypeInv
<1>4. ASSUME FieldType', field'.open = field.open,
             UNCHANGED <<doc, numberOfFields, lookups, cleared, outcome>>,
             parseError' \in Keys \cup {NoError, "malformed", "strict"}
      PROVE  TypeInv'
  BY <1>4, <1>t, <1>n, <1>m DEF Begun, TypeInv
<1>5. CASE CopyContext
  <2>1. FieldType' /\ field'.open = field.open
    BY <1>5, <1>t DEF CopyContext, FieldType
  <2> QED
    BY <1>4, <1>5, <1>t, <2>1 DEF CopyContext
<1>6. CASE \E b \in BOOLEAN : Optional(b) \/ AllowNull(b)
  <2>1. FieldType' /\ field'.open = field.open
    BY <1>6, <1>t DEF Optional, AllowNull, FieldType
  <2> QED
    BY <1>4, <1>6, <1>t, <2>1 DEF Optional, AllowNull
<1>7. CASE DefaultValue
  <2>1. FieldType' /\ field'.open = field.open
    BY <1>7, <1>t DEF DefaultValue, FieldType
  <2> QED
    BY <1>4, <1>7, <1>t, <2>1 DEF DefaultValue
<1>8. ASSUME NEW check \in CheckNames, Check(check)
      PROVE  TypeInv'
  <2>1. FieldType' /\ field'.open = field.open
    BY <1>8, <1>t DEF Check, FieldType
  <2>2. parseError' \in Keys \cup {NoError, "malformed", "strict"}
    BY <1>8, <1>e, <1>t DEF Check, FieldType, InChain
  <2> QED
    BY <1>4, <1>8, <2>1, <2>2 DEF Check
<1>9. CASE ClearError
  BY <1>9, <1>t, <1>n, <1>m DEF ClearError, Begun, FieldType, TypeInv
<1>10. ASSUME NEW strict \in BOOLEAN, FinishParse(strict)
       PROVE  TypeInv'
  <2>1. parseError' \in Keys \cup {NoError, "malformed", "strict"}
    BY <1>10, <1>e DEF FinishParse
  <2>2. outcome' \in {"none", "accepted", "acceptedStrictly", "refused"}
    BY <1>10 DEF FinishParse
  <2> QED
    BY <1>10, <2>1, <2>2, <1>t, <1>n, <1>m DEF FinishParse, Begun, FieldType, TypeInv
<1>11. CASE UNCHANGED vars
  BY <1>11, <1>t, <1>n, <1>m DEF vars, Begun, FieldType, TypeInv
<1> QED
  BY <1>1, <1>2, <1>3, <1>5, <1>6, <1>7, <1>8, <1>9, <1>10, <1>11
  DEF Next, ChainStep, CheckNames

(* The type invariant, for every set of documents and every width: among   *)
(* other things a value that was read is never also null, and fields found *)
(* are counted once each.                                                  *)
THEOREM TypeCorrect == Spec => []TypeOK
<1>1. TypeInv => TypeOK
  <2> SUFFICES ASSUME TypeInv PROVE TypeOK
    OBVIOUS
  <2>1. \A i \in DOMAIN lookups : lookups[i] \in Lookups
    BY ElementOfSeq, LenProperties DEF TypeInv
  <2>2. numberOfFields \in 0 .. MaxFields(doc) /\ cleared \in -1 .. Len(lookups)
    <3>1. /\ Len(lookups) \in Nat /\ MaxFields(doc) \in Nat /\ field.open \in BOOLEAN
          /\ numberOfFields \in Nat /\ numberOfFields <= Begun /\ Begun <= MaxFields(doc)
          /\ cleared \in Int /\ -1 <= cleared /\ cleared <= Len(lookups)
      BY LenProperties, DocumentShape DEF TypeInv, FieldType
    <3> QED
      BY <3>1 DEF Begun
  <2> QED
    BY <2>1, <2>2 DEF TypeInv, TypeOK, FieldType, Lookups
<1> QED
  BY <1>1, TypeInit, TypeNext, PTL DEF Spec

-----------------------------------------------------------------------------
(* The strict check *)

Fields == IF doc = Malformed THEN {} ELSE DOMAIN doc.fields

Ended == {lookups[i].key : i \in DOMAIN lookups}

Asked == Ended \cup (IF field.open THEN {field.key} ELSE {})

(* The fields found are counted once for each of those asked for, and once *)
(* more for some of the lookups that were repeated.                        *)
Counting ==
  LET found == Cardinality(Asked \cap Fields)
  IN /\ IsFiniteSet(Asked) /\ Cardinality(Asked) <= Begun
     /\ found <= numberOfFields
     /\ numberOfFields <= found + (Begun - Cardinality(Asked))

StrictInv ==
  /\ outcome # "none" => ~field.open
  /\ outcome = "acceptedStrictly" => parseError = NoError /\ numberOfFields = Size
  /\ parseError = "strict" => outcome # "none" /\ numberOfFields # Size

CountInv == TypeInv /\ Counting /\ StrictInv

LEMMA FieldsFinite ==
  doc \in Documents =>
    /\ IsFiniteSet(Fields) /\ Size = Cardinality(Fields)
    /\ \A key \in Keys : Has(key) <=> key \in Fields
<1> SUFFICES ASSUME doc \in Documents
             PROVE  /\ IsFiniteSet(Fields) /\ Size = Cardinality(Fields)
                    /\ \A key \in Keys : Has(key) <=> key \in Fields
  OBVIOUS
<1>1. /\ doc.kind \in {"document", "malformed"} /\ (doc.kind = "malformed" <=> doc = Malformed)
      /\ doc.kind = "document" => IsFiniteSet(DOMAIN doc.fields)
  BY DocumentShape
<1>2. CASE doc = Malformed
  BY <1>1, <1>2, FS_EmptySet DEF Fields, Size, Has
<1>3. CASE doc # Malformed
  BY <1>1, <1>3 DEF Fields, Size, Has
<1> QED
  BY <1>2, <1>3

LEMMA EndedAfter ==
  ASSUME lookups \in Seq(Lookups), NEW key \in Keys, NEW verdict,
         lookups' = Append(lookups, [key |-> key, verdict |-> verdict])
  PROVE  Ended' = Ended \cup {key} /\ Len(lookups') = Len(lookups) + 1
<1>1. /\ Len(lookups) \in Nat /\ DOMAIN lookups = 1 .. Len(lookups)
      /\ Len(lookups') = Len(lookups) + 1 /\ DOMAIN lookups' = 1 .. Len(lookups) + 1
      /\ \A i \in 1 .. Len(lookups) : lookups'[i] = lookups[i]
      /\ lookups'[Len(lookups) + 1].key = key
  BY LenProperties
<1>2. DOMAIN lookups' = DOMAIN lookups \cup {Len(lookups) + 1}
  BY <1>1
<1>3. \A i \in DOMAIN lookups : lookups'[i].key = lookups[i].key
  BY <1>1
<1>4. Ended' = {lookups'[i].key : i \in DOMAIN lookups'}
  BY DEF Ended
<1> QED
  BY <1>1, <1>2, <1>3, <1>4 DEF Ended

LEMMA CountNext == TypeInv /\ TypeInv' /\ Counting /\ StrictInv /\ [Next]_vars
                   => Counting' /\ StrictInv'
<1> SUFFICES ASSUME TypeInv, TypeInv', Counting, StrictInv, [Next]_vars
             PROVE  Counting' /\ StrictInv'
  OBVIOUS
<1>t. /\ doc \in Documents /\ lookups \in Seq(Lookups) /\ field.open \in BOOLEAN
      /\ field.open => field.key \in Keys
      /\ numberOfFields \in Nat /\ Len(lookups) \in Nat
      /\ Begun = Len(lookups) + (IF field.open THEN 1 ELSE 0)
      /\ parseError \in Keys \cup {NoError, "malformed", "strict"}
  BY LenProperties DEF TypeInv, FieldType, Begun
<1>d. doc' = doc
  BY DEF Next, ChainStep, vars, Get, GetObject, EndField, CopyContext, Optional, AllowNull,
         DefaultValue, Check, ClearError, FinishParse
<1>f. Fields' = Fields /\ Size' = Size
  BY <1>d DEF Fields, Size
<1>k. \A who \in Keys : \A failed : RecordError(who, failed) /\ parseError # "strict" => parseError' # "strict"
  BY ParserAssumption DEF RecordError
<1>1. ASSUME NEW key \in Keys, CountField(key), Between,
             Asked' = Asked \cup {key}, Begun' = Begun + 1,
             outcome' = outcome, parseError' # "strict"
      PROVE  Counting' /\ StrictInv'
  <2>1. numberOfFields' = numberOfFields + (IF key \in Fields THEN 1 ELSE 0)
    BY <1>1, <1>t, FieldsFinite DEF CountField
  <2> DEFINE found == Cardinality(Asked \cap Fields)
             all == Cardinality(Asked)
  <2>2. /\ IsFiniteSet(Asked) /\ all \in Nat /\ all <= Begun /\ Begun \in Nat
        /\ IsFiniteSet(Asked \cap Fields) /\ found \in Nat
        /\ found <= numberOfFields /\ numberOfFields <= found + (Begun - all)
    <3>1. IsFiniteSet(Asked) /\ IsFiniteSet(Asked \cap Fields)
      BY FS_Intersection DEF Counting
    <3> QED
      BY <1>t, <3>1, FS_CardinalityType DEF Counting
  <2>3. /\ IsFiniteSet(Asked \cup {key})
        /\ Cardinality(Asked \cup {key}) = IF key \in Asked THEN all ELSE all + 1
    BY <2>2, FS_AddElement
  <2>4. Cardinality((Asked \cup {key}) \cap Fields) =
          IF key \in Fields /\ key \notin Asked THEN found + 1 ELSE found
    <3>1. CASE key \in Fields /\ key \notin Asked
      <4>1. (Asked \cup {key}) \cap Fields = (Asked \cap Fields) \cup {key}
        BY <3>1
      <4>2. Cardinality((Asked \cap Fields) \cup {key}) = found + 1
        BY <2>2, <3>1, FS_AddElement
      <4>3. Cardinality((Asked \cup {key}) \cap Fields)
              = Cardinality((Asked \cap Fields) \cup {key})
        BY <4>1, Zenon
      <4> QED
        BY <3>1, <4>2, <4>3
    <3>2. CASE ~(key \in Fields /\ key \notin Asked)
      <4>1. (Asked \cup {key}) \cap Fields = Asked \cap Fields
        BY <3>2
      <4>2. Cardinality((Asked \cup {key}) \cap Fields) = found
        BY <4>1, Zenon
      <4> QED
        BY <3>2, <4>2
    <3> QED
      BY <3>1, <3>2
  <2>5. /\ Cardinality((Asked \cup {key}) \cap Fields) <= numberOfFields'
        /\ numberOfFields' <= Cardinality((Asked \cup {key}) \cap Fields)
                               + ((Begun + 1) - Cardinality(Asked \cup {key}))
        /\ Cardinality(Asked \cup {key}) <= Begun + 1
    <3> DEFINE foundNext == Cardinality((Asked \cup {key}) \cap Fields)
               allNext == Cardinality(Asked \cup {key})
    <3>1. numberOfFields \in Nat
      BY <1>t
    <3>2. foundNext = IF key \in Fields /\ key \notin Asked THEN found + 1 ELSE found
      BY <2>4
    <3>3. allNext = IF key \in Asked THEN all ELSE all + 1
      BY <2>3
    <3>4. /\ found \in Nat /\ all \in Nat /\ Begun \in Nat /\ all <= Begun
          /\ found <= numberOfFields /\ numberOfFields <= found + (Begun - all)
      BY <2>2
    <3> HIDE DEF found, all, foundNext, allNext
    <3>5. /\ foundNext <= numberOfFields'
          /\ numberOfFields' <= foundNext + ((Begun + 1) - allNext)
          /\ allNext <= Begun + 1
      <4>1. CASE key \in Asked
        BY <2>1, <3>1, <3>2, <3>3, <3>4, <4>1
      <4>2. CASE key \notin Asked
        BY <2>1, <3>1, <3>2, <3>3, <3>4, <4>2
      <4> QED
        BY <4>1, <4>2
    <3> QED
      BY <3>5 DEF foundNext, allNext
  <2>6. Counting'
    BY <1>1, <1>f, <2>3, <2>5 DEF Counting
  <2> QED
    BY <1>1, <2>6 DEF StrictInv, Between, Parsing
<1>2. ASSUME UNCHANGED <<numberOfFields, lookups, outcome>>,
             field'.open = field.open, field'.key = field.key,
             parseError' = "strict" => parseError = "strict",
             outcome = "acceptedStrictly" => parseError' = NoError
      PROVE  Counting' /\ StrictInv'
  <2>1. Asked' = Asked /\ Begun' = Begun
    BY <1>2 DEF Asked, Ended, Begun
  <2> QED
    BY <1>2, <1>f, <2>1 DEF Counting, StrictInv
<1>3. ASSUME NEW key \in Keys, NEW request \in Requests, Get(key, request)
      PROVE  Counting' /\ StrictInv'
  <2>1. field'.open /\ field'.key = key /\ lookups' = lookups /\ ~field.open
    BY <1>3 DEF Get, Between, NoField
  <2>2. Asked' = Asked \cup {key} /\ Begun' = Begun + 1
    BY <1>t, <2>1 DEF Asked, Ended, Begun
  <2>3. parseError' # "strict"
    BY <1>3, <1>k DEF Get, Between, Parsing, StrictInv
  <2> QED
    BY <1>1, <1>3, <2>2, <2>3 DEF Get
<1>4. ASSUME NEW key \in Keys, GetObject(key)
      PROVE  Counting' /\ StrictInv'
  <2>1. Ended' = Ended \cup {key} /\ Len(lookups') = Len(lookups) + 1
    BY <1>4, <1>t, EndedAfter DEF GetObject
  <2>2. ~field'.open /\ ~field.open
    BY <1>4 DEF GetObject, Between, NoField
  <2>3. Asked' = Asked \cup {key} /\ Begun' = Begun + 1
    BY <1>t, <2>1, <2>2 DEF Asked, Begun
  <2>4. parseError' # "strict"
    BY <1>4, <1>k DEF GetObject, Between, Parsing, StrictInv
  <2> QED
    BY <1>1, <1>4, <2>3, <2>4 DEF GetObject
<1>5. CASE EndField
  <2>1. Ended' = Ended \cup {field.key} /\ Len(lookups') = Len(lookups) + 1
    BY <1>5, <1>t, EndedAfter DEF EndField, InChain
  <2>2. ~field'.open /\ field.open
    BY <1>5 DEF EndField, InChain, TypeInv, FieldType
  <2>3. Asked' = Asked /\ Begun' = Begun
    BY <1>t, <2>1, <2>2 DEF Asked, Begun
  <2>4. parseError' # "strict" /\ outcome' = "none"
    BY <1>5, <1>k, <1>t DEF EndField, InChain, Parsing, StrictInv
  <2>5. numberOfFields' = numberOfFields
    BY <1>5 DEF EndField
  <2> QED
    BY <1>f, <2>3, <2>4, <2>5 DEF Counting, StrictInv
<1>6. CASE CopyContext \/ (\E b \in BOOLEAN : Optional(b) \/ AllowNull(b)) \/ DefaultValue
  <2>1. field'.open = field.open /\ field'.key = field.key
    BY <1>6 DEF CopyContext, Optional, AllowNull, DefaultValue, TypeInv, FieldType
  <2>2. UNCHANGED <<numberOfFields, lookups, outcome, parseError>> /\ outcome = "none"
    BY <1>6 DEF CopyContext, Optional, AllowNull, DefaultValue, InChain, Parsing
  <2> QED
    BY <1>2, <2>1, <2>2
<1>7. ASSUME NEW check \in CheckNames, Check(check)
      PROVE  Counting' /\ StrictInv'
  <2>1. field'.open = field.open /\ field'.key = field.key
    BY <1>7 DEF Check, TypeInv, FieldType
  <2>2. UNCHANGED <<numberOfFields, lookups, outcome>> /\ outcome = "none" /\ field.key \in Keys
    BY <1>7, <1>t DEF Check, InChain, Parsing
  <2>3. parseError' # "strict"
    BY <1>7, <2>2, <1>k DEF Check, StrictInv
  <2> QED
    BY <1>2, <2>1, <2>2, <2>3
<1>8. CASE ClearError
  BY <1>8, <1>2 DEF ClearError, Between, Parsing, NoError
<1>9. ASSUME NEW strict \in BOOLEAN, FinishParse(strict)
      PROVE  Counting' /\ StrictInv'
  <2>1. ~field.open /\ outcome = "none" /\ parseError # "strict"
    BY <1>9 DEF FinishParse, Between, Parsing, StrictInv
  <2>2. UNCHANGED <<numberOfFields, field, lookups>>
    BY <1>9 DEF FinishParse
  <2>3. Counting'
    BY <2>2, <1>f DEF Counting, Asked, Ended, Begun
  <2>4. /\ parseError' = IF (strict /\ numberOfFields # Size) /\ parseError = NoError
                         THEN "strict" ELSE parseError
        /\ outcome' = IF parseError' = NoError
                      THEN IF strict THEN "acceptedStrictly" ELSE "accepted"
                      ELSE "refused"
    BY <1>9 DEF FinishParse, RecordError
  <2>5. StrictInv'
    BY <1>f, <2>1, <2>2, <2>4 DEF StrictInv, NoError
  <2> QED
    BY <2>3, <2>5
<1>10. CASE UNCHANGED vars
  BY <1>10, <1>2 DEF vars, StrictInv
<1> QED
  BY <1>3, <1>4, <1>5, <1>6, <1>7, <1>8, <1>9, <1>10 DEF Next, ChainStep, CheckNames

LEMMA CountInit == Init => Counting /\ StrictInv
<1> SUFFICES ASSUME Init PROVE Counting /\ StrictInv
  OBVIOUS
<1>1. ~field.open /\ Len(lookups) = 0 /\ DOMAIN lookups = {}
  <2>1. ~field.open
    BY NoFieldType DEF Init
  <2>2. lookups = << >>
    BY DEF Init
  <2> QED
    BY <2>1, <2>2
<1>2. Asked = {} /\ Begun = 0
  BY <1>1 DEF Asked, Ended, Begun
<1>3. Asked \cap Fields = {}
  BY <1>2
<1> QED
  BY <1>2, <1>3, FS_EmptySet DEF Init, Counting, StrictInv, NoError

(* "if true, considers extra fields in request as an error": a strict      *)
(* finishParse succeeds only if the client asked for every field of the    *)
(* document, and objects to nothing else, but for one field or objection   *)
(* for each lookup of a field that was looked up before.                   *)
THEOREM StrictFindsUnknownHolds == Spec => []StrictFindsUnknown
<1>1. CountInv => StrictFindsUnknown
  <2> DEFINE repeated == Len(lookups) - Cardinality(Ended)
             unknown == Fields \ Ended
  <2> SUFFICES ASSUME CountInv
               PROVE  /\ outcome = "acceptedStrictly" => Cardinality(unknown) <= repeated
                      /\ parseError = "strict" => unknown # {} \/ repeated > 0
    <3>1. (IF doc = Malformed THEN {} ELSE DOMAIN doc.fields \ Ended) = unknown
      BY DEF Fields
    <3> QED
      BY <3>1 DEF StrictFindsUnknown, Ended
  <2>1. CASE field.open
    BY <2>1, ParserAssumption DEF CountInv, StrictInv
  <2>2. CASE ~field.open
    <3> DEFINE found == Cardinality(Ended \cap Fields)
    <3>1. Asked = Ended /\ Begun = Len(lookups)
      BY <2>2, LenProperties DEF Asked, Begun, CountInv, TypeInv
    <3>2. IsFiniteSet(Fields) /\ Size = Cardinality(Fields) /\ IsFiniteSet(Ended)
      BY <3>1, FieldsFinite DEF CountInv, TypeInv, Counting
    <3>3. /\ found \in Nat /\ Cardinality(Ended) \in Nat /\ Len(lookups) \in Nat
          /\ numberOfFields \in Nat /\ found <= numberOfFields
          /\ numberOfFields <= found + repeated
      <4>1. IsFiniteSet(Ended \cap Fields)
        BY <3>2, FS_Intersection
      <4> QED
        BY <3>1, <3>2, <4>1, FS_CardinalityType, LenProperties
           DEF CountInv, Counting, TypeInv
    <3>4. Cardinality(unknown) = Size - found
      <4>1. Fields \cap Ended = Ended \cap Fields
        OBVIOUS
      <4>2. Cardinality(Fields \ Ended) = Cardinality(Fields) - Cardinality(Fields \cap Ended)
        BY <3>2, FS_Difference
      <4> QED
        BY <3>2, <4>1, <4>2
    <3>5. Size \in Nat
      BY <3>2, FS_CardinalityType
    <3>6. ASSUME outcome = "acceptedStrictly"
          PROVE  Cardinality(unknown) <= repeated
      <4>1. numberOfFields = Size
        BY <3>6 DEF CountInv, StrictInv
      <4> HIDE DEF unknown, found
      <4> QED
        BY <3>3, <3>4, <3>5, <4>1
    <3>7. ASSUME parseError = "strict", unknown = {}
          PROVE  repeated > 0
      <4>1. numberOfFields # Size
        BY <3>7 DEF CountInv, StrictInv
      <4>2. Cardinality(unknown) = 0
        BY <3>7, FS_EmptySet
      <4> HIDE DEF unknown, found
      <4> QED
        BY <3>3, <3>4, <3>5, <4>1, <4>2
    <3> QED
      BY <3>6, <3>7
  <2> QED
    BY <2>1, <2>2 DEF CountInv, TypeInv, FieldType
<1>2. CountInv /\ [Next]_vars => CountInv'
  BY TypeNext, CountNext DEF CountInv
<1>3. Init => CountInv
  BY TypeInit, CountInit DEF CountInv
<1> QED
  BY <1>1, <1>2, <1>3, PTL DEF Spec

-----------------------------------------------------------------------------
(* What a lookup means: the conversions against the reference *)

LEMMA ValueShape ==
  \A v \in Values :
    /\ v.kind = "null" <=> v = Null
    /\ v.kind = "number" => v.twice \in Int
    /\ v.kind = "string" /\ v # Text(Malformed) => v.content \in Values
    /\ v.kind = "string" => v = Text(v.content)
<1>1. /\ Null.kind = "null" /\ Boolean.kind = "bool"
      /\ \A x : /\ Object(x).kind = "object" /\ Number(x).kind = "number"
                /\ Text(x).kind = "string" /\ ArrayOf(x).kind = "array"
  BY DEF Null, Boolean, Object, Number, Text, ArrayOf
<1>2. \A v \in Values : IsValue(v, Values)
  BY DocumentsAssumption
<1> SUFFICES ASSUME NEW v \in Values
             PROVE  /\ v.kind = "null" <=> v = Null
                    /\ v.kind = "number" => v.twice \in Int
                    /\ v.kind = "string" /\ v # Text(Malformed) => v.content \in Values
                    /\ v.kind = "string" => v = Text(v.content)
  OBVIOUS
<1> QED
  BY <1>1, <1>2 DEF IsValue

LEMMA NumericType == \A v \in Values : IsNumeric(v) => Twice(v) \in Int
<1> SUFFICES ASSUME NEW v \in Values, IsNumeric(v) PROVE Twice(v) \in Int
  OBVIOUS
<1>1. CASE v.kind = "number"
  BY <1>1, ValueShape DEF Twice
<1>2. CASE v.kind = "string" /\ v.content.kind = "number"
  <2>1. v.content \in Values
    <3>1. v.content \in Values \cup {Malformed} /\ Malformed.kind = "malformed"
      BY <1>2, KindOfValue
    <3> QED
      BY <1>2, <3>1
  <2> QED
    BY <1>2, <2>1, ValueShape DEF Twice
<1> QED
  BY <1>1, <1>2 DEF IsNumeric

\* Cutting to an integer is exact for an integer that fits, and only for one.
LEMMA AsSignedExact ==
  ASSUME NEW twice \in Int, NEW bits
  PROVE  /\ AsSigned(bits, twice).exact \in BOOLEAN
         /\ AsSigned(bits, twice).exact <=> \E m \in Signed(bits) : twice = 2 * m
         /\ AsSigned(bits, twice).exact => twice = 2 * AsSigned(bits, twice).n
<1> DEFINE n == IF twice >= 0 THEN twice \div 2 ELSE -((-twice) \div 2)
<1>1. /\ AsSigned(bits, twice).exact = (twice % 2 = 0 /\ n \in Signed(bits))
      /\ AsSigned(bits, twice).n = Clamp(n, Signed(bits))
  BY DEF AsSigned
<1>2. n \in Int /\ (twice % 2 = 0 => twice = 2 * n) /\ \A m \in Int : twice = 2 * m => m = n /\ twice % 2 = 0
  OBVIOUS
<1>3. n \in Signed(bits) => Clamp(n, Signed(bits)) = n
  BY DEF Clamp
<1>4. Signed(bits) \subseteq Int
  BY DEF Signed
<1> HIDE DEF n
<1> QED
  BY <1>1, <1>2, <1>3, <1>4

\* A cast in range changes nothing.
LEMMA CastInRange ==
  \A lo, hi, n \in Int : lo <= n /\ n <= hi => Cast(n, lo, hi) = n
BY DEF Cast

(* The conversion to lo .. hi accepts the integers there and gives them.   *)
NarrowExact(lo, hi, twice) ==
  /\ ParseNarrow(lo, hi, twice).ok <=> \E m \in lo .. hi : twice = 2 * m
  /\ ParseNarrow(lo, hi, twice).ok => ParseNarrow(lo, hi, twice).value = Number(twice)

FitsWide(lo, hi) == lo .. hi \subseteq Signed(Wide)

LEMMA NarrowMeaning ==
  \A lo, hi, twice \in Int : FitsWide(lo, hi) => NarrowExact(lo, hi, twice)
<1> SUFFICES ASSUME NEW lo \in Int, NEW hi \in Int, NEW twice \in Int,
                    lo .. hi \subseteq Signed(Wide)
             PROVE  /\ ParseNarrow(lo, hi, twice).ok <=> \E m \in lo .. hi : twice = 2 * m
                    /\ ParseNarrow(lo, hi, twice).ok =>
                         ParseNarrow(lo, hi, twice).value = Number(twice)
  BY DEF NarrowExact, FitsWide
<1> DEFINE read == AsSigned(Wide, twice)
           good == read.exact /\ read.n >= lo /\ read.n <= hi
<1>1. /\ read.exact \in BOOLEAN /\ read.exact <=> \E m \in Signed(Wide) : twice = 2 * m
      /\ read.exact => twice = 2 * read.n
  BY AsSignedExact
<1>2. ParseNarrow(lo, hi, twice) = IF good THEN Stored(Number(2 * Cast(read.n, lo, hi))) ELSE Failed
  BY DEF ParseNarrow
<1>3. Signed(Wide) \subseteq Int
  BY DEF Signed
<1> HIDE DEF read
<1>4. read.exact => read.n \in Int
  <2> SUFFICES ASSUME read.exact PROVE read.n \in Int
    OBVIOUS
  <2>1. PICK m \in Signed(Wide) : twice = 2 * m
    BY <1>1
  <2>2. read.n = Clamp(m, Signed(Wide))
    <3>1. m \in Int
      BY <1>3
    <3>2. (IF twice >= 0 THEN twice \div 2 ELSE -((-twice) \div 2)) = m
      BY <2>1, <3>1
    <3> QED
      BY <3>2 DEF read, AsSigned
  <2> QED
    BY <1>3, <2>2 DEF Clamp
<1>5. good <=> \E m \in lo .. hi : twice = 2 * m
  <2>1. ASSUME good PROVE \E m \in lo .. hi : twice = 2 * m
    <3>1. read.n \in lo .. hi /\ twice = 2 * read.n
      BY <1>1, <1>4, <2>1
    <3> QED
      BY <3>1
  <2>2. ASSUME NEW m \in lo .. hi, twice = 2 * m PROVE good
    <3>1. read.exact
      BY <1>1, <2>2
    <3>2. read.n = m
      BY <1>1, <1>4, <2>2, <3>1
    <3> QED
      BY <3>1, <3>2
  <2> QED
    BY <2>1, <2>2
<1>6. ASSUME good PROVE ParseNarrow(lo, hi, twice) = Stored(Number(twice))
  <2>1. Cast(read.n, lo, hi) = read.n
    BY <1>4, <1>6, CastInRange
  <2>2. twice = 2 * read.n
    BY <1>1, <1>6
  <2> QED
    BY <1>2, <1>6, <2>1, <2>2
<1>7. Failed.ok = FALSE /\ \A x : Stored(x).ok = TRUE /\ Stored(x).value = x
  BY DEF Failed, Stored
<1>8. CASE good
  BY <1>5, <1>6, <1>7, <1>8
<1>9. CASE ~good
  BY <1>2, <1>5, <1>7, <1>9
<1> QED
  BY <1>8, <1>9

LEMMA WideMeaning ==
  ASSUME NEW twice \in Int
  PROVE  /\ ParseWide(twice).ok <=> \E m \in Signed(Wide) : twice = 2 * m
         /\ ParseWide(twice).ok => ParseWide(twice).value = Number(twice)
<1>1. /\ AsSigned(Wide, twice).exact <=> \E m \in Signed(Wide) : twice = 2 * m
      /\ AsSigned(Wide, twice).exact => twice = 2 * AsSigned(Wide, twice).n
  BY AsSignedExact
<1>2. /\ ParseWide(twice).ok = AsSigned(Wide, twice).exact
      /\ ParseWide(twice).value = Number(2 * AsSigned(Wide, twice).n)
  BY DEF ParseWide
<1> QED
  BY <1>1, <1>2

(* uint64, where its double is exact and not the first one past the range. *)
LEMMA LongMeaning ==
  ASSUME NEW twice \in Int, NEW reported \in BOOLEAN, DoubleOf(twice) = twice,
         twice # 2 * Pow2(Long)
  PROVE  /\ ParseLong(twice, reported).ok <=> \E m \in Unsigned(Long) : twice = 2 * m
         /\ ParseLong(twice, reported).ok => ParseLong(twice, reported).value = Number(twice)
<1> DEFINE max == Pow2(Long) - 1
           bad == twice < 0 \/ twice > 2 * Pow2(Long) \/ twice % 2 = 1
<1>1. Pow2(Long) \in Nat \ {0} /\ DoubleOf(2 * max) = 2 * Pow2(Long)
  BY ParserAssumption
<1>2. AsDouble(twice, reported).exact /\ AsDouble(twice, reported).twice = twice
  BY DEF AsDouble
<1>3. ParseLong(twice, reported) =
        IF bad THEN Failed
        ELSE Stored(IF twice <= 2 * max THEN Number(twice) ELSE Undefined)
  BY <1>1, <1>2 DEF ParseLong
<1>4. ~bad <=> \E m \in 0 .. max : twice = 2 * m
  <2>1. ASSUME ~bad PROVE \E m \in 0 .. max : twice = 2 * m
    <3>1. twice \div 2 \in 0 .. max /\ twice = 2 * (twice \div 2)
      BY <1>1, <2>1
    <3> QED
      BY <3>1
  <2>2. ASSUME NEW m \in 0 .. max, twice = 2 * m PROVE ~bad
    BY <1>1, <2>2
  <2> QED
    BY <2>1, <2>2
<1>5. ~bad => twice <= 2 * max
  BY <1>1
<1>6. Failed.ok = FALSE /\ \A x : Stored(x).ok = TRUE /\ Stored(x).value = x
  BY DEF Failed, Stored
<1>7. Unsigned(Long) = 0 .. max
  BY DEF Unsigned
<1>8. CASE bad
  BY <1>3, <1>4, <1>6, <1>7, <1>8
<1>9. CASE ~bad
  <2>1. ParseLong(twice, reported) = Stored(Number(twice))
    BY <1>3, <1>5, <1>9
  <2> QED
    BY <1>4, <1>6, <1>7, <1>9, <2>1
<1> QED
  BY <1>8, <1>9

(* Apart from uint64 numbers a double cannot hold, a conversion succeeds   *)
(* just when the value fits, and gives what it stands for.                 *)
PlainNumber(type, v) ==
  type = "uint64" /\ IsNumeric(v) =>
    DoubleOf(Twice(v)) = Twice(v) /\ Twice(v) # 2 * Pow2(Long)

LEMMA ConversionMeaning ==
  ASSUME NEW type \in Types, NEW v \in Values, NEW lib \in Library, PlainNumber(type, v)
  PROVE  /\ ParseValue(type, v, lib).ok <=> Fits(type, v)
         /\ ParseValue(type, v, lib).ok => ParseValue(type, v, lib).value = Held(type, v)
<1>1. Failed.ok = FALSE /\ \A x : Stored(x).ok = TRUE /\ Stored(x).value = x
  BY DEF Failed, Stored
<1>2. DOMAIN IntegerRange = {"uint8", "int8", "int32", "uint64"}
  BY DEF IntegerRange
<1>3. v.kind # "malformed"
  BY KindOfValue
<1>4. CASE type \notin NumberTypes
  BY <1>1, <1>2, <1>3, <1>4 DEF Types, NumberTypes, ParseValue, Fits, Held
<1>5. CASE type \in NumberTypes /\ ~IsNumeric(v)
  BY <1>1, <1>2, <1>5 DEF NumberTypes, ParseValue, Fits
<1>6. CASE type \in NumberTypes /\ IsNumeric(v)
  <2>1. Twice(v) \in Int /\ ParseValue(type, v, lib) = ParseNumber(type, Twice(v), lib)
    <3>1. Twice(v) \in Int
      BY <1>6, NumericType
    <3>2. ParseValue(type, v, lib) = ParseNumber(type, Twice(v), lib)
      BY <1>6 DEF ParseValue, NumberTypes
    <3> QED
      BY <3>1, <3>2
  <2>2. /\ Pow2(Narrow - 1) \in Nat /\ Pow2(Narrow) \in Nat
        /\ Unsigned(Narrow) \subseteq Signed(Wide) /\ Signed(Narrow) \subseteq Signed(Wide)
    BY ParserAssumption
  <2>3. /\ IntegerRange["uint8"] = 0 .. Pow2(Narrow) - 1
        /\ IntegerRange["int8"] = -Pow2(Narrow - 1) .. Pow2(Narrow - 1) - 1
        /\ IntegerRange["int32"] = Signed(Wide) /\ IntegerRange["uint64"] = Unsigned(Long)
    BY DEF IntegerRange, Unsigned, Signed
  <2>4. type # "double" =>
          /\ Fits(type, v) <=> \E n \in IntegerRange[type] : Twice(v) = 2 * n
          /\ Held(type, v) = Number(Twice(v))
    BY <1>2, <1>6 DEF Fits, Held, NumberTypes
  <2>5. CASE type = "uint8"
    <3>1. ParseValue(type, v, lib) = ParseNarrow(0, Pow2(Narrow) - 1, Twice(v))
      BY <2>1, <2>5 DEF ParseNumber
    <3>2. 0 .. Pow2(Narrow) - 1 \subseteq Signed(Wide)
      BY <2>2 DEF Unsigned
    <3>3. 0 \in Int /\ Pow2(Narrow) - 1 \in Int /\ Twice(v) \in Int
      BY <2>1, <2>2
    <3>4. /\ Fits(type, v) <=> \E n \in 0 .. Pow2(Narrow) - 1 : Twice(v) = 2 * n
          /\ Held(type, v) = Number(Twice(v))
      BY <2>3, <2>4, <2>5
    <3>5. FitsWide(0, Pow2(Narrow) - 1)
      BY <3>2 DEF FitsWide
    <3>6. NarrowExact(0, Pow2(Narrow) - 1, Twice(v))
      BY <3>3, <3>5, NarrowMeaning
    <3> QED
      BY <3>1, <3>4, <3>6 DEF NarrowExact
  <2>6. CASE type = "int8"
    <3>1. ParseValue(type, v, lib) = ParseNarrow(-Pow2(Narrow - 1), Pow2(Narrow - 1) - 1, Twice(v))
      BY <2>1, <2>6 DEF ParseNumber
    <3>2. -Pow2(Narrow - 1) .. Pow2(Narrow - 1) - 1 \subseteq Signed(Wide)
      BY <2>2 DEF Signed
    <3>3. -Pow2(Narrow - 1) \in Int /\ Pow2(Narrow - 1) - 1 \in Int /\ Twice(v) \in Int
      BY <2>1, <2>2
    <3>4. /\ Fits(type, v) <=>
               \E n \in -Pow2(Narrow - 1) .. Pow2(Narrow - 1) - 1 : Twice(v) = 2 * n
          /\ Held(type, v) = Number(Twice(v))
      BY <2>3, <2>4, <2>6
    <3>5. FitsWide(-Pow2(Narrow - 1), Pow2(Narrow - 1) - 1)
      BY <3>2 DEF FitsWide
    <3>6. NarrowExact(-Pow2(Narrow - 1), Pow2(Narrow - 1) - 1, Twice(v))
      BY <3>3, <3>5, NarrowMeaning
    <3> QED
      BY <3>1, <3>4, <3>6 DEF NarrowExact
  <2>7. CASE type = "int32"
    <3>1. ParseValue(type, v, lib) = ParseWide(Twice(v))
      BY <2>1, <2>7 DEF ParseNumber
    <3>2. /\ Fits(type, v) <=> \E n \in Signed(Wide) : Twice(v) = 2 * n
          /\ Held(type, v) = Number(Twice(v))
      BY <2>3, <2>4, <2>7
    <3>3. Twice(v) \in Int
      BY <2>1
    <3>4. /\ ParseWide(Twice(v)).ok <=> \E m \in Signed(Wide) : Twice(v) = 2 * m
          /\ ParseWide(Twice(v)).ok => ParseWide(Twice(v)).value = Number(Twice(v))
      BY <3>3, WideMeaning
    <3> QED
      BY <3>1, <3>2, <3>4
  <2>8. CASE type = "uint64"
    <3>1. /\ ParseValue(type, v, lib) = ParseLong(Twice(v), lib.lossReported)
          /\ lib.lossReported \in BOOLEAN
      BY <2>1, <2>8 DEF ParseNumber, Library
    <3>2. DoubleOf(Twice(v)) = Twice(v) /\ Twice(v) # 2 * Pow2(Long)
      BY <1>6, <2>8 DEF PlainNumber
    <3> QED
      BY <2>1, <2>3, <2>4, <2>8, <3>1, <3>2, LongMeaning
  <2>9. CASE type = "double"
    BY <1>1, <1>2, <1>6, <2>1, <2>9 DEF ParseNumber, Fits, Held, NumberTypes
  <2> QED
    BY <1>6, <2>5, <2>6, <2>7, <2>8, <2>9 DEF NumberTypes
<1> QED
  BY <1>4, <1>5, <1>6

LEMMA GetMeaning ==
  ASSUME NEW type \in Types, NEW v \in Values, NEW lib \in Library, PlainNumber(type, v)
  PROVE  /\ v = Null => GetImpl(type, TRUE, v, lib) = NotRead(TRUE, FALSE)
         /\ v # Null /\ Fits(type, v) => GetImpl(type, TRUE, v, lib) = Read(Held(type, v))
         /\ v # Null /\ ~Fits(type, v) =>
              /\ ~GetImpl(type, TRUE, v, lib).read /\ ~GetImpl(type, TRUE, v, lib).null
              /\ GetImpl(type, TRUE, v, lib).error
<1>1. IsNull(v, lib) <=> v = Null
  BY ValueShape, KindOfValue DEF IsNull
<1>2. CASE v = Null
  BY <1>1, <1>2 DEF GetImpl
<1>3. CASE v # Null /\ Fits(type, v)
  <2>1. ParseValue(type, v, lib).ok /\ ParseValue(type, v, lib).value = Held(type, v)
    BY <1>3, ConversionMeaning
  <2> QED
    BY <1>1, <1>3, <2>1 DEF GetImpl
<1>4. CASE v # Null /\ ~Fits(type, v)
  <2>1. ~ParseValue(type, v, lib).ok
    BY <1>4, ConversionMeaning
  <2>2. GetImpl(type, TRUE, v, lib) = [NotRead(FALSE, TRUE) EXCEPT !.from = "failed"]
    BY <1>1, <1>4, <2>1 DEF GetImpl
  <2> QED
    BY <1>4, <2>2 DEF NotRead
<1> QED
  BY <1>2, <1>3, <1>4

(* The requests and values the code and the header agree on; Disputed      *)
(* names the others.                                                       *)
PlainField(request, v) ==
  /\ request = <<"get", "uint64">> => PlainNumber("uint64", v)
  /\ v = Null => request[1] = "get"
  /\ v = Text(Malformed) => request[1] # "getFromString"

(* The reference: null is found, a value that converts is read exactly, any *)
(* other is an error.                                                      *)
Meaning(request, v, found) ==
  /\ Meant(request, v) = Null =>
       ~found.read /\ found.null /\ ~found.error /\ found.from = "untouched"
  /\ Meant(request, v) # Null /\ Convertible(request, v) =>
       /\ found.read /\ ~found.null /\ ~found.error /\ found.from = "field"
       /\ found.value = Expected(request, v)
  /\ Meant(request, v) # Null /\ ~Convertible(request, v) => ~found.null /\ found.error

LEMMA LookupMissing ==
  ASSUME NEW request \in Requests, NEW v, NEW lib
  PROVE  Lookup(request, FALSE, v, lib) = NotRead(FALSE, FALSE)
<1>1. \A type : GetImpl(type, FALSE, v, lib) = NotRead(FALSE, FALSE)
  BY DEF GetImpl
<1>2. ~NotRead(FALSE, FALSE).read /\ InnerError(NotRead(FALSE, FALSE)) = FALSE
  BY DEF NotRead, InnerError
<1>3. request[1] \in {"get", "getFromString", "getAndMap", "getArray"}
  BY DEF Requests
<1> QED
  BY <1>1, <1>2, <1>3 DEF Lookup, GetValue, GetFromString, GetAndMap, GetArray

LEMMA LookupMeaning ==
  ASSUME NEW request \in Requests, NEW v \in Values, NEW lib \in Library,
         PlainField(request, v)
  PROVE  Meaning(request, v, Lookup(request, TRUE, v, lib))
<1> DEFINE type == request[2]
<1>1. /\ \A x : Read(x).read = TRUE /\ Read(x).null = FALSE /\ Read(x).error = FALSE
             /\ Read(x).from = "field" /\ Read(x).value = x
      /\ \A null, error \in BOOLEAN :
           /\ NotRead(null, error).read = FALSE /\ NotRead(null, error).null = null
           /\ NotRead(null, error).error = error
           /\ NotRead(null, error).from = "untouched"
  BY DEF Read, NotRead
<1>2. type \in Types /\ "string" \in Types /\ "JValue" \in Types
  BY DEF Requests, Types, NumberTypes
<1>3. DOMAIN IntegerRange = {"uint8", "int8", "int32", "uint64"}
  BY DEF IntegerRange
<1>4. CASE request[1] = "get"
  <2>1. PlainNumber(type, v)
    <3>1. type = "uint64" => request = <<"get", "uint64">>
      BY <1>4 DEF Requests
    <3> QED
      BY <3>1 DEF PlainField, PlainNumber
  <2>2. Lookup(request, TRUE, v, lib) = GetImpl(type, TRUE, v, lib)
    BY <1>4 DEF Lookup, GetValue
  <2>3. /\ Meant(request, v) = v /\ Convertible(request, v) = Fits(type, v)
        /\ Expected(request, v) = Held(type, v)
    BY <1>4 DEF Meant, Convertible, Expected
  <2>4. CASE v = Null
    BY <1>1, <1>2, <2>1, <2>2, <2>3, <2>4, GetMeaning DEF Meaning
  <2>5. CASE v # Null /\ Fits(type, v)
    <3>1. Lookup(request, TRUE, v, lib) = Read(Held(type, v))
      BY <1>2, <2>1, <2>2, <2>5, GetMeaning
    <3> QED
      BY <1>1, <2>3, <2>5, <3>1 DEF Meaning
  <2>6. CASE v # Null /\ ~Fits(type, v)
    BY <1>2, <2>1, <2>2, <2>3, <2>6, GetMeaning DEF Meaning
  <2> QED
    BY <2>4, <2>5, <2>6
<1>5. CASE request[1] = "getFromString"
  <2>1. v # Null /\ v # Text(Malformed) /\ type \in {"int32", "JValue"}
    BY <1>5 DEF PlainField, Requests
  <2>2. \A u \in Values : PlainNumber(type, u) /\ PlainNumber("string", u)
    BY <2>1 DEF PlainNumber
  <2>3. Lookup(request, TRUE, v, lib) = GetFromString(type, TRUE, v, lib)
    BY <1>5 DEF Lookup
  <2>4. Fits("string", v) <=> v.kind = "string"
    BY <1>3 DEF Fits
  <2>5. CASE v.kind = "string"
    <3>1. GetImpl("string", TRUE, v, lib) = Read(v)
      <4>1. Held("string", v) = v
        BY <1>3 DEF Held
      <4> QED
        BY <1>2, <2>1, <2>2, <2>4, <2>5, <4>1, GetMeaning
    <3>2. Lookup(request, TRUE, v, lib) = GetImpl(type, TRUE, v.content, lib)
      BY <1>1, <2>3, <3>1 DEF GetFromString
    <3>3. v.content \in Values
      BY <2>1, <2>5, ValueShape
    <3>4. /\ Meant(request, v) = v.content
          /\ Convertible(request, v) <=> Fits(type, v.content)
          /\ Expected(request, v) = Held(type, v.content)
      BY <1>5, <2>5 DEF Meant, Convertible, Expected
    <3>5. CASE v.content = Null
      BY <1>1, <1>2, <2>2, <3>2, <3>3, <3>4, <3>5, GetMeaning DEF Meaning
    <3>6. CASE v.content # Null /\ Fits(type, v.content)
      <4>1. Lookup(request, TRUE, v, lib) = Read(Held(type, v.content))
        BY <1>2, <2>2, <3>2, <3>3, <3>6, GetMeaning
      <4> QED
        BY <1>1, <3>4, <3>6, <4>1 DEF Meaning
    <3>7. CASE v.content # Null /\ ~Fits(type, v.content)
      BY <1>2, <2>2, <3>2, <3>3, <3>4, <3>7, GetMeaning DEF Meaning
    <3> QED
      BY <3>5, <3>6, <3>7
  <2>6. CASE v.kind # "string"
    <3>1. Meant(request, v) = v /\ ~Convertible(request, v)
      BY <1>5, <2>6 DEF Meant, Convertible
    <3>2. ~GetImpl("string", TRUE, v, lib).read /\ GetImpl("string", TRUE, v, lib).error
      BY <1>2, <2>1, <2>2, <2>4, <2>6, GetMeaning
    <3>3. InnerError(GetImpl("string", TRUE, v, lib)) = TRUE
      BY <3>2 DEF InnerError
    <3>4. Lookup(request, TRUE, v, lib) = NotRead(FALSE, TRUE)
      BY <2>3, <3>2, <3>3 DEF GetFromString
    <3>5. Lookup(request, TRUE, v, lib).error /\ ~Lookup(request, TRUE, v, lib).null
      BY <1>1, <3>4
    <3> QED
      BY <2>1, <3>1, <3>5 DEF Meaning
  <2> QED
    BY <2>5, <2>6
<1>6. CASE request[1] = "getAndMap"
  <2> DEFINE inner == GetImpl(type, TRUE, v, lib)
  <2>1. v # Null /\ type \in {"string", "int32"} /\ PlainNumber(type, v)
    BY <1>6 DEF PlainField, Requests, PlainNumber
  <2>2. Lookup(request, TRUE, v, lib) = GetAndMap(type, TRUE, v, lib)
    BY <1>6 DEF Lookup
  <2>3. /\ Meant(request, v) = v /\ Expected(request, v) = ValueMap[v]
        /\ Convertible(request, v) <=> Fits(type, v) /\ v \in DOMAIN ValueMap
    BY <1>6 DEF Meant, Convertible, Expected
  <2>4. DOMAIN ValueMap = {Text(Malformed)}
    BY DEF ValueMap
  <2>5. CASE ~Fits(type, v)
    <3>1. ~inner.read /\ inner.error
      BY <1>2, <2>1, <2>5, GetMeaning
    <3>2. InnerError(inner) = TRUE
      BY <3>1 DEF InnerError
    <3>3. Lookup(request, TRUE, v, lib) = NotRead(FALSE, TRUE)
      BY <2>2, <3>1, <3>2 DEF GetAndMap
    <3>4. Lookup(request, TRUE, v, lib).error /\ ~Lookup(request, TRUE, v, lib).null
      BY <1>1, <3>3
    <3> QED
      BY <2>1, <2>3, <2>5, <3>4 DEF Meaning
  <2>6. CASE Fits(type, v) /\ type = "string"
    <3>1. inner = Read(v)
      <4>1. Held("string", v) = v
        BY <1>3 DEF Held
      <4> QED
        <5>1. inner = Read(Held(type, v))
          BY <1>2, <2>1, <2>6, GetMeaning
        <5> QED
          BY <2>6, <4>1, <5>1
    <3>2. Lookup(request, TRUE, v, lib) =
            IF v \in DOMAIN ValueMap THEN Read(ValueMap[v]) ELSE NotRead(FALSE, TRUE)
      BY <1>1, <2>2, <3>1 DEF GetAndMap
    <3>3. CASE v \in DOMAIN ValueMap
      BY <1>1, <2>1, <2>3, <2>6, <3>2, <3>3 DEF Meaning
    <3>4. CASE v \notin DOMAIN ValueMap
      BY <1>1, <2>1, <2>3, <3>2, <3>4 DEF Meaning
    <3> QED
      BY <3>3, <3>4
  <2>7. CASE Fits(type, v) /\ type = "int32"
    <3>1. /\ \A x : Number(x).kind = "number" /\ Text(x).kind = "string" /\ Text(x).content = x
          /\ Malformed.kind = "malformed"
      BY DEF Number, Text, Malformed
    <3>2. inner = Read(Number(Twice(v)))
      <4>1. Held("int32", v) = Number(Twice(v))
        BY <1>3 DEF Held
      <4> QED
        <5>1. inner = Read(Held(type, v))
          BY <1>2, <2>1, <2>7, GetMeaning
        <5> QED
          BY <2>7, <4>1, <5>1
    <3>3. Number(Twice(v)) \notin DOMAIN ValueMap
      BY <2>4, <3>1
    <3>4. Lookup(request, TRUE, v, lib) = NotRead(FALSE, TRUE)
      BY <1>1, <2>2, <3>2, <3>3 DEF GetAndMap
    <3>5. v \notin DOMAIN ValueMap
      <4>1. IsNumeric(v)
        BY <1>3, <2>7 DEF Fits
      <4> QED
        BY <2>4, <3>1, <4>1 DEF IsNumeric
    <3> QED
      BY <1>1, <2>1, <2>3, <3>4, <3>5 DEF Meaning
  <2> QED
    BY <2>1, <2>5, <2>6, <2>7
<1>7. CASE request[1] = "getArray"
  <2> DEFINE items == [i \in DOMAIN v.items |-> GetImpl(type, TRUE, v.items[i], lib)]
             all == ArrayOf([i \in DOMAIN items |-> items[i].value])
             error == \E i \in DOMAIN items : ~items[i].read
  <2>1. /\ v # Null /\ type \in {"int8", "JValue"}
        /\ \A u \in Values : PlainNumber(type, u) /\ PlainNumber("JValue", u)
    BY <1>7 DEF PlainField, Requests, PlainNumber
  <2>2. GetImpl("JValue", TRUE, v, lib) = Read(v)
    <3>1. Fits("JValue", v) /\ Held("JValue", v) = v
      BY <1>3, KindOfValue DEF Fits, Held
    <3> QED
      BY <1>2, <2>1, <3>1, GetMeaning
  <2>3. Lookup(request, TRUE, v, lib) =
          IF v.kind # "array" THEN [Read(v) EXCEPT !.error = TRUE, !.from = "untouched"]
          ELSE [Read(all) EXCEPT !.error = error]
    BY <1>1, <1>7, <2>2 DEF Lookup, GetArray, items, all, error
  <2>4. /\ Meant(request, v) = v
        /\ Expected(request, v) = ArrayOf([i \in DOMAIN v.items |-> Held(type, v.items[i])])
        /\ Convertible(request, v) <=>
             /\ v.kind = "array"
             /\ \A i \in DOMAIN v.items : v.items[i] # Null /\ Fits(type, v.items[i])
    BY <1>7 DEF Meant, Convertible, Expected
  <2>5. CASE v.kind # "array"
    <3>1. Lookup(request, TRUE, v, lib).error /\ ~Lookup(request, TRUE, v, lib).null
      BY <2>3, <2>5 DEF Read
    <3> QED
      BY <2>1, <2>4, <2>5, <3>1 DEF Meaning
  <2>6. CASE v.kind = "array"
    <3>1. \A i \in DOMAIN v.items : v.items[i] \in Values
      BY <2>6, KindOfValue, ElementOfSeq
    <3>2. DOMAIN items = DOMAIN v.items
      OBVIOUS
    <3>3. ASSUME NEW i \in DOMAIN v.items
          PROVE  /\ items[i].read <=> v.items[i] # Null /\ Fits(type, v.items[i])
                 /\ items[i].read => items[i].value = Held(type, v.items[i])
      <4>1. v.items[i] \in Values /\ items[i] = GetImpl(type, TRUE, v.items[i], lib)
        BY <3>1, <3>3
      <4>2. CASE v.items[i] = Null
        BY <1>1, <1>2, <2>1, <4>1, <4>2, GetMeaning
      <4>3. CASE v.items[i] # Null /\ Fits(type, v.items[i])
        <5>1. items[i] = Read(Held(type, v.items[i]))
          BY <1>2, <2>1, <4>1, <4>3, GetMeaning
        <5> QED
          BY <1>1, <4>3, <5>1
      <4>4. CASE v.items[i] # Null /\ ~Fits(type, v.items[i])
        BY <1>2, <2>1, <4>1, <4>4, GetMeaning
      <4> QED
        BY <4>2, <4>3, <4>4
    <3>4. error <=> ~Convertible(request, v)
      BY <2>4, <2>6, <3>2, <3>3
    <3>5. ~error => all = Expected(request, v)
      BY <2>4, <3>2, <3>3
    <3> HIDE DEF items, all, error
    <3>6. /\ Lookup(request, TRUE, v, lib).read = TRUE /\ Lookup(request, TRUE, v, lib).null = FALSE
          /\ Lookup(request, TRUE, v, lib).error = error
          /\ Lookup(request, TRUE, v, lib).from = "field"
          /\ Lookup(request, TRUE, v, lib).value = all
      BY <2>3, <2>6 DEF Read
    <3> QED
      BY <2>1, <2>4, <3>4, <3>5, <3>6 DEF Meaning
  <2> QED
    BY <2>5, <2>6
<1> QED
  BY <1>4, <1>5, <1>6, <1>7 DEF Requests

-----------------------------------------------------------------------------
(* Errors: the invariant                                                   *)

(* What the lookup of the open field returned, and what the chain has made *)
(* of it since.                                                            *)
FoundBy(lib) == Lookup(field.request, Has(field.key), ValueAt(field.key), lib)

Matches(found) ==
  /\ field.read = found.read /\ field.value = found.value
  /\ field.from = IF field.default /\ ~field.read THEN "default" ELSE found.from
  /\ IF field.copied THEN ~field.read ELSE field.null = found.null

\* The lookup or a check has recorded an error, or tried to.
Flawed(found) ==
  \/ found.error
  \/ field.read /\ \E check \in field.checks : ~Within(check, field.value.twice)

CleanSoFar == \A i \in Counted : lookups[i].verdict # "invalid"

\* The error names the first field that is at fault.
ErrorFound ==
  \E i \in Counted :
    /\ lookups[i].key = parseError /\ lookups[i].verdict # "valid"
    /\ \A j \in Counted : j < i => lookups[j].verdict # "invalid"

ErrorSoFar(found) ==
  /\ parseError = NoError => ~Flawed(found) /\ CleanSoFar
  /\ parseError \in Keys =>
       ErrorFound \/ (parseError = field.key /\ Flawed(found) /\ CleanSoFar)

OpenField == field.open => \E lib \in Library : Matches(FoundBy(lib)) /\ ErrorSoFar(FoundBy(lib))

ClosedField ==
  ~field.open => /\ parseError = NoError => CleanSoFar
                 /\ parseError \in Keys => ErrorFound

MalformedNoticed == doc = Malformed /\ parseError = NoError => cleared >= 0

ErrorInv ==
  /\ TypeInv /\ OpenField /\ ClosedField /\ MalformedNoticed
  /\ DestinationTrustworthy

-----------------------------------------------------------------------------
(* Errors: what the lookup, the chain and the end of a field amount to     *)

LEMMA FoundMissing ==
  ASSUME field.request \in Requests, ~Has(field.key), NEW lib
  PROVE  /\ FoundBy(lib) = NotRead(FALSE, FALSE) /\ ValueAt(field.key) = Null
         /\ Meant(field.request, ValueAt(field.key)) = Null
<1>1. FoundBy(lib) = NotRead(FALSE, FALSE)
  <2>1. Has(field.key) = FALSE
    BY DEF Has
  <2> QED
    BY <2>1, LookupMissing DEF FoundBy
<1>2. ValueAt(field.key) = Null /\ Null.kind = "null"
  BY DEF ValueAt, Null
<1> QED
  BY <1>1, <1>2 DEF Meant

LEMMA FoundPresent ==
  ASSUME doc \in Documents, field.request \in Requests, Has(field.key), NEW lib \in Library,
         PlainField(field.request, ValueAt(field.key))
  PROVE  Meaning(field.request, ValueAt(field.key), FoundBy(lib))
<1>1. ValueAt(field.key) \in Values
  BY DocumentShape DEF ValueAt, Has
<1>2. Has(field.key) = TRUE
  BY DEF Has
<1> QED
  BY <1>1, <1>2, LookupMeaning DEF FoundBy

LEMMA PlainUnlessDisputed ==
  ~Disputed(field) =>
    /\ PlainField(field.request, ValueAt(field.key))
    /\ ~(Meant(field.request, ValueAt(field.key)) = Null
          /\ field.copied /\ field.optional /\ ~field.allowNull)
BY DEF Disputed, PlainField, PlainNumber

(* Where the code and the header agree, a field is refused if and only if  *)
(* the header rules it out.                                                *)
LEMMA FieldVerdict ==
  ASSUME TypeInv, NEW lib \in Library, Matches(FoundBy(lib)), ~Disputed(field)
  PROVE  Valid(field) <=> ~Flawed(FoundBy(lib)) /\ ~FinishField
<1> DEFINE v == ValueAt(field.key)
           found == FoundBy(lib)
<1>1. /\ doc \in Documents /\ field.request \in Requests
      /\ field.optional \in BOOLEAN /\ field.allowNull \in BOOLEAN /\ field.null \in BOOLEAN
      /\ field.read \in BOOLEAN /\ field.copied \in BOOLEAN
  BY DEF TypeInv, FieldType
<1>2. /\ PlainField(field.request, v)
      /\ ~(Meant(field.request, v) = Null /\ field.copied /\ field.optional /\ ~field.allowNull)
  BY PlainUnlessDisputed
<1>3. /\ field.read = found.read /\ field.value = found.value
      /\ ~field.copied => field.null = found.null
  BY DEF Matches
<1>4. CASE ~Has(field.key)
  <2>1. found = NotRead(FALSE, FALSE) /\ Meant(field.request, v) = Null
    BY <1>1, <1>4, FoundMissing
  <2>2. ~found.read /\ ~found.null /\ ~found.error
    BY <2>1 DEF NotRead
  <2>3. ~Flawed(found)
    BY <1>3, <2>2 DEF Flawed
  <2>4. Valid(field) <=> field.optional
    BY <1>1, <1>4 DEF Valid
  <2>5. FinishField <=> ~field.optional
    BY <1>1, <1>2, <1>3, <2>1, <2>2 DEF FinishField
  <2> QED
    BY <2>3, <2>4, <2>5
<1>5. CASE Has(field.key)
  <2>1. Meaning(field.request, v, found)
    BY <1>1, <1>2, <1>5, FoundPresent
  <2>2. CASE Meant(field.request, v) = Null
    <3>1. ~found.read /\ found.null /\ ~found.error
      BY <2>1, <2>2 DEF Meaning
    <3>2. ~Flawed(found)
      BY <1>3, <3>1 DEF Flawed
    <3>3. Valid(field) <=> field.optional /\ field.allowNull
      BY <1>1, <1>5, <2>2 DEF Valid
    <3>4. FinishField <=> ~field.optional \/ ~field.allowNull
      BY <1>1, <1>2, <1>3, <2>2, <3>1 DEF FinishField
    <3> QED
      BY <1>1, <3>2, <3>3, <3>4
  <2>3. CASE Meant(field.request, v) # Null /\ Convertible(field.request, v)
    <3>1. found.read /\ ~found.error /\ found.value = Expected(field.request, v)
      BY <2>1, <2>3 DEF Meaning
    <3>2. Valid(field) <=>
            \A check \in field.checks : Within(check, Expected(field.request, v).twice)
      BY <1>5, <2>3 DEF Valid
    <3>3. Flawed(found) <=> \E check \in field.checks : ~Within(check, field.value.twice)
      BY <1>3, <3>1 DEF Flawed
    <3>4. ~FinishField
      BY <1>3, <3>1 DEF FinishField
    <3>5. field.value = Expected(field.request, v)
      BY <1>3, <3>1
    <3> QED
      BY <3>2, <3>3, <3>4, <3>5
  <2>4. CASE Meant(field.request, v) # Null /\ ~Convertible(field.request, v)
    <3>1. found.error
      BY <2>1, <2>4 DEF Meaning
    <3>2. ~Valid(field)
      BY <1>5, <2>4 DEF Valid
    <3>3. Flawed(found)
      BY <3>1 DEF Flawed
    <3> QED
      BY <3>2, <3>3
  <2> QED
    BY <2>2, <2>3, <2>4
<1> QED
  BY <1>4, <1>5

\* Without an error the destination holds what the field stands for.
LEMMA FieldDestination ==
  ASSUME TypeInv, NEW lib \in Library, Matches(FoundBy(lib)), ~Flawed(FoundBy(lib)),
         PlainField(field.request, ValueAt(field.key))
  PROVE  IF field.read
         THEN field.from = "field" /\ field.value = Expected(field.request, ValueAt(field.key))
         ELSE field.from = IF field.default THEN "default" ELSE "untouched"
<1> DEFINE v == ValueAt(field.key)
           found == FoundBy(lib)
<1>1. doc \in Documents /\ field.request \in Requests /\ field.default \in BOOLEAN
  BY DEF TypeInv, FieldType
<1>2. /\ field.read = found.read /\ field.value = found.value
      /\ field.from = IF field.default /\ ~field.read THEN "default" ELSE found.from
  BY DEF Matches
<1>3. ~found.error
  BY DEF Flawed
<1>4. CASE ~Has(field.key)
  <2>1. found = NotRead(FALSE, FALSE)
    BY <1>1, <1>4, FoundMissing
  <2>2. ~found.read /\ found.from = "untouched"
    BY <2>1 DEF NotRead
  <2> QED
    BY <1>1, <1>2, <2>2
<1>5. CASE Has(field.key)
  <2>1. Meaning(field.request, v, found)
    BY <1>1, <1>5, FoundPresent
  <2>2. \/ ~found.read /\ found.from = "untouched"
        \/ found.read /\ found.from = "field" /\ found.value = Expected(field.request, v)
    BY <1>3, <2>1 DEF Meaning
  <2> QED
    BY <1>1, <1>2, <2>2
<1> QED
  BY <1>4, <1>5

\* recordError keeps the first error.
LEMMA Recorded ==
  \A who : \A failed \in BOOLEAN : who # NoError /\ RecordError(who, failed) =>
    /\ parseError' = NoError => parseError = NoError /\ ~failed
    /\ parseError # NoError => parseError' = parseError
    /\ parseError = NoError /\ ~failed => parseError' = NoError
    /\ parseError = NoError /\ failed => parseError' = who
BY DEF RecordError

\* A verdict is added.
LEMMA OneMoreVerdict ==
  ASSUME TypeInv, NEW key, NEW verdict,
         lookups' = Append(lookups, [key |-> key, verdict |-> verdict]), cleared' = cleared
  PROVE  /\ CleanSoFar /\ verdict # "invalid" => CleanSoFar'
         /\ ErrorFound /\ parseError' = parseError => ErrorFound'
         /\ CleanSoFar /\ parseError' = key /\ verdict # "valid" => ErrorFound'
<1>1. PICK n \in Nat : n = Len(lookups) /\ cleared <= n
  BY LenProperties DEF TypeInv
<1>2. /\ DOMAIN lookups = 1 .. n /\ DOMAIN lookups' = 1 .. n + 1 /\ cleared \in Int
      /\ \A i \in 1 .. n : lookups'[i] = lookups[i]
      /\ lookups'[n + 1].key = key /\ lookups'[n + 1].verdict = verdict
  BY <1>1, LenProperties DEF TypeInv
<1>3. /\ n + 1 \in Counted' /\ n + 1 \notin Counted
      /\ \A i \in Counted : i \in 1 .. n /\ i \in Counted' /\ lookups'[i] = lookups[i]
      /\ \A i \in Counted' : i = n + 1 \/ i \in Counted
  BY <1>1, <1>2 DEF Counted
<1>4. ASSUME CleanSoFar, verdict # "invalid" PROVE CleanSoFar'
  BY <1>2, <1>3, <1>4 DEF CleanSoFar
<1>5. ASSUME ErrorFound, parseError' = parseError PROVE ErrorFound'
  <2>1. PICK i \in Counted : /\ lookups[i].key = parseError /\ lookups[i].verdict # "valid"
                             /\ \A j \in Counted : j < i => lookups[j].verdict # "invalid"
    BY <1>5 DEF ErrorFound
  <2>2. /\ i \in Counted' /\ lookups'[i].key = parseError' /\ lookups'[i].verdict # "valid"
    BY <1>3, <1>5, <2>1
  <2>3. \A j \in Counted' : j < i => lookups'[j].verdict # "invalid"
    BY <1>1, <1>3, <2>1
  <2> QED
    BY <2>2, <2>3 DEF ErrorFound
<1>6. ASSUME CleanSoFar, parseError' = key, verdict # "valid" PROVE ErrorFound'
  <2>1. lookups'[n + 1].key = parseError' /\ lookups'[n + 1].verdict # "valid"
    BY <1>2, <1>6
  <2>2. \A j \in Counted' : j < n + 1 => lookups'[j].verdict # "invalid"
    <3> SUFFICES ASSUME NEW j \in Counted', j < n + 1 PROVE lookups'[j].verdict # "invalid"
      OBVIOUS
    <3>1. j \in Counted
      BY <1>1, <1>3
    <3> QED
      BY <1>3, <1>6, <3>1 DEF CleanSoFar
  <2> QED
    BY <1>3, <2>1, <2>2 DEF ErrorFound
<1> QED
  BY <1>4, <1>5, <1>6

-----------------------------------------------------------------------------
(* Errors: the steps                                                       *)

LEMMA ErrorNext == ErrorInv /\ TypeInv' /\ [Next]_vars => ErrorInv'
<1> SUFFICES ASSUME ErrorInv, TypeInv', [Next]_vars PROVE ErrorInv'
  OBVIOUS
<1>t. /\ TypeInv /\ doc \in Documents /\ field.open \in BOOLEAN /\ field.request \in Requests
      /\ field.open => field.key \in Keys
      /\ cleared \in Int /\ -1 <= cleared /\ cleared <= Len(lookups) /\ Len(lookups) \in Nat
      /\ DOMAIN lookups = 1 .. Len(lookups)
  BY LenProperties DEF ErrorInv, TypeInv, FieldType
<1>d. doc' = doc
  BY DEF Next, ChainStep, vars, Get, GetObject, EndField, CopyContext, Optional, AllowNull,
         DefaultValue, Check, ClearError, FinishParse
<1>k. \A key \in Keys : key # NoError /\ key # "malformed" /\ key # "strict"
  BY ParserAssumption DEF NoError
<1>n. NoError \notin Keys /\ "strict" \notin Keys /\ "strict" # NoError
  BY ParserAssumption DEF NoError
<1>h. \A key : Has(key)' = Has(key) /\ ValueAt(key)' = ValueAt(key)
  BY <1>d DEF Has, ValueAt
<1>c. lookups' = lookups /\ cleared' = cleared =>
        /\ CleanSoFar' = CleanSoFar
        /\ parseError' = parseError => ErrorFound' = ErrorFound
  BY DEF CleanSoFar, ErrorFound, Counted
(* The chain of an open field goes on: what its lookup returned stands.    *)
<1>1. ASSUME field.open, field'.open,
             UNCHANGED <<lookups, cleared, outcome>>,
             parseError' = NoError => parseError = NoError,
             \A lib \in Library : Matches(FoundBy(lib)) /\ ErrorSoFar(FoundBy(lib))
               => (Matches(FoundBy(lib)))' /\ (ErrorSoFar(FoundBy(lib)))'
      PROVE  ErrorInv'
  <2>1. OpenField'
    BY <1>1 DEF ErrorInv, OpenField
  <2>2. ClosedField' /\ DestinationTrustworthy'
    BY <1>1 DEF ClosedField, DestinationTrustworthy
  <2>3. MalformedNoticed'
    BY <1>1, <1>d DEF ErrorInv, MalformedNoticed
  <2> QED
    BY <2>1, <2>2, <2>3 DEF ErrorInv
<1>2. ASSUME field'.key = field.key, field'.request = field.request, NEW lib
      PROVE  FoundBy(lib)' = FoundBy(lib)
  BY <1>2, <1>d DEF FoundBy, Has, ValueAt
<1>3. ASSUME NEW key \in Keys, NEW request \in Requests, Get(key, request)
      PROVE  ErrorInv'
  <2>1. PICK lib \in Library :
          LET found == Lookup(request, Has(key), ValueAt(key), lib)
          IN /\ field' = [NoField EXCEPT !.open = TRUE, !.key = key,
                            !.request = request, !.read = found.read,
                            !.null = found.null, !.from = found.from,
                            !.value = found.value]
             /\ RecordError(key, found.error)
    BY <1>3 DEF Get
  <2>2. PICK found : found = Lookup(request, Has(key), ValueAt(key), lib)
    OBVIOUS
  <2>3. /\ field'.open /\ field'.key = key /\ field'.request = request /\ field'.read = found.read
        /\ field'.null = found.null /\ field'.from = found.from /\ field'.value = found.value
        /\ ~field'.copied /\ ~field'.default /\ field'.checks = {}
    BY <2>1, <2>2 DEF NoField
  <2>4. FoundBy(lib)' = found
    BY <2>2, <2>3, <1>h DEF FoundBy
  <2>5. /\ ~field.open /\ lookups' = lookups /\ cleared' = cleared
        /\ parseError = NoError => CleanSoFar
        /\ parseError \in Keys => ErrorFound
    BY <1>3 DEF Get, Between, ErrorInv, ClosedField
  <2>6. found.error \in BOOLEAN
    <3>1. IsFound(found)
      BY <1>t, <2>2, LookupType, ValueType
    <3> QED
      BY <3>1 DEF IsFound
  <2>7. /\ parseError' = NoError => parseError = NoError /\ ~found.error
        /\ parseError # NoError => parseError' = parseError
        /\ parseError = NoError /\ ~found.error => parseError' = NoError
        /\ parseError = NoError /\ found.error => parseError' = key
    BY <2>1, <2>2, <2>6, <1>k, Recorded
  <2>8. (Matches(FoundBy(lib)))'
    BY <2>3, <2>4 DEF Matches
  <2>9. (Flawed(FoundBy(lib)))' <=> found.error
    BY <2>3, <2>4 DEF Flawed
  <2>10. (ErrorSoFar(FoundBy(lib)))'
    BY <2>3, <2>5, <2>7, <2>9, <1>c, <1>n, <2>6 DEF ErrorSoFar
  <2>11. OpenField'
    BY <2>8, <2>10 DEF OpenField
  <2>12. ClosedField' /\ DestinationTrustworthy'
    BY <2>3 DEF ClosedField, DestinationTrustworthy
  <2>13. MalformedNoticed'
    BY <1>d, <2>5, <2>7 DEF ErrorInv, MalformedNoticed
  <2> QED
    BY <2>11, <2>12, <2>13 DEF ErrorInv
<1>4. ASSUME NEW key \in Keys, GetObject(key)
      PROVE  ErrorInv'
  <2> DEFINE good == ValueAt(key).kind = "object"
             verdict == IF good THEN "valid" ELSE "invalid"
  <2>1. /\ ~field.open /\ cleared' = cleared /\ field' = NoField
        /\ lookups' = Append(lookups, [key |-> key, verdict |-> verdict])
        /\ RecordError(key, ~good)
        /\ parseError = NoError => CleanSoFar
        /\ parseError \in Keys => ErrorFound
    BY <1>4 DEF GetObject, Between, ErrorInv, ClosedField
  <2>2. ~field'.open /\ ~field'.read /\ field'.from = "untouched" /\ ~field'.default
    BY <2>1 DEF NoField
  <2>3. /\ parseError' = NoError => parseError = NoError /\ good
        /\ parseError # NoError => parseError' = parseError
        /\ parseError = NoError /\ good => parseError' = NoError
        /\ parseError = NoError /\ ~good => parseError' = key
    <3>1. PICK failed \in BOOLEAN : (failed <=> ~good) /\ RecordError(key, failed)
      <4>1. CASE good
        BY <2>1, <4>1 DEF RecordError
      <4>2. CASE ~good
        BY <2>1, <4>2 DEF RecordError
      <4> QED
        BY <4>1, <4>2
    <3> HIDE DEF good
    <3> QED
      BY <3>1, <1>k, Recorded
  <2>4. /\ CleanSoFar /\ verdict # "invalid" => CleanSoFar'
        /\ ErrorFound /\ parseError' = parseError => ErrorFound'
        /\ CleanSoFar /\ parseError' = key /\ verdict # "valid" => ErrorFound'
    BY <1>t, <2>1, OneMoreVerdict
  <2>5. ClosedField'
    BY <2>1, <2>3, <2>4, <1>n DEF ClosedField
  <2>6. OpenField' /\ DestinationTrustworthy'
    BY <2>2 DEF OpenField, DestinationTrustworthy
  <2>7. MalformedNoticed'
    BY <1>d, <2>1, <2>3 DEF ErrorInv, MalformedNoticed
  <2> QED
    BY <2>5, <2>6, <2>7 DEF ErrorInv
<1>5. CASE EndField
  <2>1. /\ field.open /\ cleared' = cleared /\ RecordError(field.key, FinishField)
        /\ lookups' = Append(lookups, [key |-> field.key, verdict |-> Verdict(field)])
    BY <1>5 DEF EndField, InChain
  <2>2. PICK lib \in Library : Matches(FoundBy(lib)) /\ ErrorSoFar(FoundBy(lib))
    BY <2>1 DEF ErrorInv, OpenField
  <2>3. PICK found : found = FoundBy(lib)
    OBVIOUS
  <2>4. FinishField \in BOOLEAN
    BY DEF FinishField
  <2>5. /\ parseError' = NoError => parseError = NoError /\ ~FinishField
        /\ parseError # NoError => parseError' = parseError
        /\ parseError = NoError /\ ~FinishField => parseError' = NoError
        /\ parseError = NoError /\ FinishField => parseError' = field.key
    BY <2>1, <2>4, <1>t, <1>k, Recorded
  <2>6. /\ Verdict(field) = "invalid" => Flawed(found) \/ FinishField
        /\ Flawed(found) \/ FinishField => Verdict(field) # "valid"
    <3>1. CASE Disputed(field)
      BY <3>1 DEF Verdict
    <3>2. CASE ~Disputed(field)
      BY <1>t, <2>2, <2>3, <3>2, FieldVerdict DEF Verdict
    <3> QED
      BY <3>1, <3>2
  <2>7. /\ CleanSoFar /\ Verdict(field) # "invalid" => CleanSoFar'
        /\ ErrorFound /\ parseError' = parseError => ErrorFound'
        /\ CleanSoFar /\ parseError' = field.key /\ Verdict(field) # "valid" => ErrorFound'
    BY <1>t, <2>1, OneMoreVerdict
  <2>8. /\ parseError = NoError => ~Flawed(found) /\ CleanSoFar
        /\ parseError \in Keys =>
             ErrorFound \/ (parseError = field.key /\ Flawed(found) /\ CleanSoFar)
    BY <2>2, <2>3 DEF ErrorSoFar
  <2>9. ClosedField'
    BY <2>5, <2>6, <2>7, <2>8, <1>n DEF ClosedField
  <2>10. /\ ~field'.open /\ field'.key = field.key /\ field'.request = field.request
         /\ field'.read = field.read /\ field'.value = field.value /\ field'.from = field.from
         /\ field'.default = field.default
    BY <1>5, <1>t DEF EndField, TypeInv, FieldType
  <2>11. DestinationTrustworthy'
    <3>v. ValueAt(field.key)' = ValueAt(field.key)
      BY <2>10, <1>d DEF ValueAt, Has
    <3> SUFFICES ASSUME parseError' = NoError, ~Disputed(field)'
                 PROVE  IF field.read
                        THEN /\ field.from = "field"
                             /\ field.value = Expected(field.request, ValueAt(field.key))
                        ELSE field.from = IF field.default THEN "default" ELSE "untouched"
      BY <2>10, <3>v DEF DestinationTrustworthy
    <3>1. PlainField(field.request, ValueAt(field.key))
      <4>1. PlainField(field.request, ValueAt(field.key))'
        BY DEF Disputed, PlainField, PlainNumber
      <4> QED
        BY <2>10, <3>v, <4>1 DEF PlainField, PlainNumber
    <3>2. ~Flawed(found)
      BY <2>5, <2>8
    <3> QED
      BY <1>t, <2>2, <2>3, <3>1, <3>2, FieldDestination
  <2>12. OpenField'
    BY <2>10 DEF OpenField
  <2>13. MalformedNoticed'
    BY <1>d, <2>1, <2>5 DEF ErrorInv, MalformedNoticed
  <2> QED
    BY <2>9, <2>11, <2>12, <2>13 DEF ErrorInv
<1>6. CASE CopyContext \/ (\E b \in BOOLEAN : Optional(b) \/ AllowNull(b)) \/ DefaultValue
  <2>1. /\ field.open /\ field'.open /\ UNCHANGED <<lookups, cleared, outcome, parseError>>
        /\ field'.key = field.key /\ field'.request = field.request
        /\ field'.read = field.read /\ field'.value = field.value /\ field'.checks = field.checks
    BY <1>6, <1>t DEF CopyContext, Optional, AllowNull, DefaultValue, InChain, TypeInv, FieldType
  <2>2. ASSUME NEW lib \in Library, Matches(FoundBy(lib)), ErrorSoFar(FoundBy(lib))
        PROVE  (Matches(FoundBy(lib)))' /\ (ErrorSoFar(FoundBy(lib)))'
    <3>1. PICK found : found = FoundBy(lib) /\ found = FoundBy(lib)'
      BY <1>2, <2>1
    <3>2. Matches(found)'
      <4>1. Matches(found)
        BY <2>2, <3>1
      <4>2. CASE CopyContext
        <5>1. ~field.read /\ field'.copied /\ field'.from = field.from /\ field'.default = field.default
          BY <4>2, <1>t DEF CopyContext, TypeInv, FieldType
        <5> QED
          BY <2>1, <4>1, <5>1 DEF Matches
      <4>3. CASE \E b \in BOOLEAN : Optional(b) \/ AllowNull(b)
        <5>1. /\ field'.copied = field.copied /\ field'.from = field.from
              /\ field'.default = field.default /\ field'.null = field.null
          BY <4>3, <1>t DEF Optional, AllowNull, TypeInv, FieldType
        <5> QED
          BY <2>1, <4>1, <5>1 DEF Matches
      <4>4. CASE DefaultValue
        <5>1. /\ field'.copied = field.copied /\ field'.null = field.null /\ field'.default
              /\ field'.from = IF field.read THEN field.from ELSE "default"
          BY <4>4, <1>t DEF DefaultValue, TypeInv, FieldType
        <5> QED
          BY <2>1, <4>1, <5>1 DEF Matches
      <4> QED
        BY <1>6, <4>2, <4>3, <4>4
    <3>3. Flawed(found)' <=> Flawed(found)
      BY <2>1 DEF Flawed
    <3>4. ErrorSoFar(found)'
      <4>1. ErrorSoFar(found)
        BY <2>2, <3>1
      <4> QED
        BY <2>1, <3>3, <4>1, <1>c DEF ErrorSoFar
    <3> QED
      BY <3>1, <3>2, <3>4 DEF Matches, ErrorSoFar, Flawed
  <2> QED
    BY <1>1, <2>1, <2>2
<1>7. ASSUME NEW check \in CheckNames, Check(check)
      PROVE  ErrorInv'
  <2> DEFINE failed == field.read /\ ~Within(check, field.value.twice)
  <2>1. /\ field.open /\ field'.open /\ UNCHANGED <<lookups, cleared, outcome>>
        /\ field'.key = field.key /\ field'.request = field.request
        /\ field'.read = field.read /\ field'.value = field.value
        /\ field'.checks = field.checks \cup {check} /\ field'.from = field.from
        /\ field'.copied = field.copied /\ field'.default = field.default
        /\ field'.null = field.null
        /\ RecordError(field.key, failed)
    BY <1>7, <1>t DEF Check, InChain, TypeInv, FieldType
  <2>2. /\ parseError' = NoError => parseError = NoError /\ ~failed
        /\ parseError # NoError => parseError' = parseError
        /\ parseError = NoError /\ ~failed => parseError' = NoError
        /\ parseError = NoError /\ failed => parseError' = field.key
    <3>1. failed \in BOOLEAN
      BY <1>t DEF TypeInv, FieldType
    <3> HIDE DEF failed
    <3> QED
      BY <2>1, <3>1, <1>t, <1>k, Recorded
  <2>3. ASSUME NEW lib \in Library, Matches(FoundBy(lib)), ErrorSoFar(FoundBy(lib))
        PROVE  (Matches(FoundBy(lib)))' /\ (ErrorSoFar(FoundBy(lib)))'
    <3>1. PICK found : found = FoundBy(lib) /\ found = FoundBy(lib)'
      BY <1>2, <2>1
    <3>2. Matches(found) /\ ErrorSoFar(found)
      BY <2>3, <3>1
    <3>3. Matches(found)'
      BY <2>1, <3>2 DEF Matches
    <3>4. Flawed(found)' <=> Flawed(found) \/ failed
      BY <2>1 DEF Flawed
    <3>5. ErrorSoFar(found)'
      BY <2>1, <2>2, <3>2, <3>4, <1>c, <1>n DEF ErrorSoFar
    <3> QED
      BY <3>1, <3>3, <3>5 DEF Matches, ErrorSoFar, Flawed
  <2> QED
    BY <1>1, <2>1, <2>2, <2>3
<1>8. CASE ClearError
  <2>1. /\ ~field.open /\ field' = field /\ lookups' = lookups /\ cleared' = Len(lookups)
        /\ parseError' = NoError
    BY <1>8 DEF ClearError, Between
  <2>2. Counted' = {}
    BY <2>1, <1>t DEF Counted
  <2>3. ClosedField' /\ OpenField'
    BY <2>1, <2>2, <1>n DEF ClosedField, OpenField, CleanSoFar
  <2>4. DestinationTrustworthy' /\ MalformedNoticed'
    BY <2>1, <1>t DEF DestinationTrustworthy, MalformedNoticed
  <2> QED
    BY <2>3, <2>4 DEF ErrorInv
<1>9. ASSUME ~field.open, UNCHANGED <<field, lookups, cleared>>,
             parseError' = parseError \/ parseError' = "strict"
      PROVE  ErrorInv'
  <2>1. parseError' = NoError => parseError = NoError
    BY <1>9, <1>n
  <2>2. ClosedField'
    BY <1>9, <2>1, <1>c, <1>n DEF ErrorInv, ClosedField
  <2>3. OpenField'
    BY <1>9 DEF OpenField
  <2>4. Disputed(field)' = Disputed(field) /\ ValueAt(field.key)' = ValueAt(field.key)
    BY <1>9, <1>d DEF Disputed, ValueAt, Has
  <2>5. DestinationTrustworthy'
    BY <1>9, <2>1, <2>4 DEF ErrorInv, DestinationTrustworthy
  <2>6. MalformedNoticed'
    BY <1>9, <2>1, <1>d DEF ErrorInv, MalformedNoticed
  <2> QED
    BY <2>2, <2>3, <2>5, <2>6 DEF ErrorInv
<1>10. ASSUME NEW strict \in BOOLEAN, FinishParse(strict)
       PROVE  ErrorInv'
  BY <1>9, <1>10 DEF FinishParse, Between, RecordError
<1>11. CASE UNCHANGED vars
  <2>1. CASE ~field.open
    BY <1>9, <1>11, <2>1 DEF vars
  <2>2. CASE field.open
    <3>1. ASSUME NEW lib \in Library, Matches(FoundBy(lib)), ErrorSoFar(FoundBy(lib))
          PROVE  (Matches(FoundBy(lib)))' /\ (ErrorSoFar(FoundBy(lib)))'
      <4>1. PICK found : found = FoundBy(lib) /\ found = FoundBy(lib)'
        BY <1>2, <1>11 DEF vars
      <4>2. Matches(found) /\ ErrorSoFar(found)
        BY <3>1, <4>1
      <4>3. Matches(found)' /\ (Flawed(found)' <=> Flawed(found))
        BY <1>11, <4>2 DEF Matches, Flawed, vars
      <4>4. ErrorSoFar(found)'
        BY <1>11, <4>2, <4>3, <1>c DEF ErrorSoFar, vars
      <4> QED
        BY <4>1, <4>3, <4>4 DEF Matches, ErrorSoFar, Flawed
    <3> QED
      BY <1>1, <1>11, <2>2, <3>1 DEF vars
  <2> QED
    BY <2>1, <2>2
<1> QED
  BY <1>3, <1>4, <1>5, <1>6, <1>7, <1>8, <1>10, <1>11 DEF Next, ChainStep, CheckNames

LEMMA ErrorInit == Init => ErrorInv
<1> SUFFICES ASSUME Init PROVE ErrorInv
  OBVIOUS
<1>1. ~field.open /\ ~field.read /\ field.from = "untouched" /\ ~field.default
  BY NoFieldType DEF Init
<1>2. Counted = {} /\ parseError \notin Keys
  <2>1. lookups = << >>
    BY DEF Init
  <2>2. DOMAIN lookups = {}
    BY <2>1
  <2> QED
    BY <2>2, ParserAssumption DEF Counted, Init, NoError
<1>3. ClosedField /\ OpenField /\ DestinationTrustworthy
  BY <1>1, <1>2 DEF ClosedField, OpenField, CleanSoFar, DestinationTrustworthy
<1>4. MalformedNoticed
  BY DEF Init, MalformedNoticed, NoError
<1> QED
  BY <1>3, <1>4, TypeInit DEF ErrorInv

LEMMA ErrorInvariant == Spec => []ErrorInv
<1>1. ErrorInv /\ [Next]_vars => ErrorInv'
  BY TypeNext, ErrorNext DEF ErrorInv
<1> QED
  BY <1>1, ErrorInit, PTL DEF Spec

(* "Does final checks if parsing is successful": as long as the parser has *)
(* no error, no field looked up since clearError was missing, null, of     *)
(* another type, out of range or outside its limits, unless the header     *)
(* allows it.                                                              *)
THEOREM NoInvalidAcceptedHolds == Spec => []NoInvalidAccepted
<1>1. ErrorInv => NoInvalidAccepted
  BY DEF ErrorInv, ClosedField, MalformedNoticed, CleanSoFar, NoInvalidAccepted
<1> QED
  BY <1>1, ErrorInvariant, PTL

(* "JsonParser stores only the first error encountered": the error names   *)
(* the first field the header rules out, and none that it allows.          *)
THEOREM ErrorNamesFirstInvalidHolds == Spec => []ErrorNamesFirstInvalid
<1>1. ErrorInv => ErrorNamesFirstInvalid
  BY DEF ErrorInv, ClosedField, ErrorFound, ErrorNamesFirstInvalid
<1> QED
  BY <1>1, ErrorInvariant, PTL

(* The variable get fills holds, when no error is reported, the exact      *)
(* value of the field, its default, or what it held before.                *)
THEOREM DestinationTrustworthyHolds == Spec => []DestinationTrustworthy
<1>1. ErrorInv => DestinationTrustworthy
  BY DEF ErrorInv
<1> QED
  BY <1>1, ErrorInvariant, PTL

=============================================================================
