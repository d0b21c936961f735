----------------------------- MODULE JsonParser -----------------------------
(***************************************************************************)
(* One JsonParser (jsonparser.hpp, jsonparser.cpp) over one document, used *)
(* as client code uses it: a chain such as                                 *)
(*      parser.get("key", variable).optional().defaultValue(5).min(0)      *)
(* for one field after another, then finishParse.  Each method of the      *)
(* chain is an action; the chain ends with the destructor of the context   *)
(* object, EndField.                                                       *)
(*                                                                         *)
(* A number is written as its double, so that halves are integers too.     *)
(* The widths of the code, 8 to 64 bits and 53 bits of mantissa, are the   *)
(* constants Narrow < Wide <= Long and Mantissa < Long.                    *)
(*                                                                         *)
(* An operator marked "Variant" is a wrong version of the definition that  *)
(* follows it; nothing in the specification uses it.                       *)
(***************************************************************************)
EXTENDS Integers, Sequences, FiniteSets

CONSTANTS Keys,         \* the field names client code asks for
          Values,       \* JSON values: those of the fields, and their parts
          Documents,    \* the documents: Document(fields), or Malformed
          Narrow,       \* bits of (u)int8, (u)int16 and uint32
          Wide,         \* bits of the signed type these are read through
          Long,         \* bits of uint64, read through a double
          Mantissa,     \* bits of the mantissa of a double
          Low, High,    \* the arguments of min and max
          MaxFields(_)  \* bound: fields looked up in a document

Document(fields) == [kind |-> "document", fields |-> fields]
Malformed == [kind |-> "malformed"]
Null == [kind |-> "null"]
Number(twice) == [kind |-> "number", twice |-> twice]
Text(content) == [kind |-> "string", content |-> content]
ArrayOf(items) == [kind |-> "array", items |-> items]
Object(good) == [kind |-> "object", good |-> good]
Boolean == [kind |-> "bool"]

\* What a cast out of range leaves: any value at all.
Undefined == [kind |-> "undefined"]

\* A value whose parts are in V.
IsValue(v, V) ==
  \/ v \in {Null, Boolean, Object(TRUE), Object(FALSE)}
  \/ v.kind = "number" /\ v = Number(v.twice) /\ v.twice \in Int
  \/ v.kind = "string" /\ v = Text(v.content) /\ v.content \in V \cup {Malformed}
  \/ v.kind = "array" /\ v = ArrayOf(v.items) /\ v.items \in Seq(V)

ASSUME DocumentsAssumption ==
  /\ \A v \in Values : IsValue(v, Values)
  /\ \A d \in Documents :
       /\ \/ d = Malformed
          \/ /\ d = Document(d.fields) /\ IsFiniteSet(DOMAIN d.fields)
             /\ \A key \in DOMAIN d.fields : d.fields[key] \in Values
       /\ MaxFields(d) \in Nat

-----------------------------------------------------------------------------
(* Conversion of one value: parseValue *)

Pow2(n) == 2 ^ n
Signed(bits) == -Pow2(bits - 1) .. Pow2(bits - 1) - 1
Unsigned(bits) == 0 .. Pow2(bits) - 1

\* The value converted, and what became of the destination.
Stored(value) == [ok |-> TRUE, value |-> value]
Failed == [ok |-> FALSE, value |-> Null]

(* A number, or a string that is read as one.                              *)
IsNumeric(v) == \/ v.kind = "number"
                \/ v.kind = "string" /\ v.content.kind = "number"
Twice(v) == IF v.kind = "number" THEN v.twice ELSE v.content.twice

Clamp(n, range) == IF n \in range THEN n
                   ELSE CHOOSE m \in range : \A k \in range :
                          IF n < 0 THEN m <= k ELSE k <= m

(* JValue::asNumber for a signed integer: cut to an integer, saturated,    *)
(* with a flag for either.                                                 *)
AsSigned(bits, twice) ==
  LET n == IF twice >= 0 THEN twice \div 2 ELSE -((-twice) \div 2)
  IN [n    |-> Clamp(n, Signed(bits)),
      exact |-> twice % 2 = 0 /\ n \in Signed(bits)]

(* JValue::asNumber for a double: to the nearest multiple of the unit in   *)
(* the last place, ties to even.                                           *)
DoubleOf(twice) ==
  LET size == IF twice < 0 THEN -twice ELSE twice
      ulp == CHOOSE u \in {Pow2(e) : e \in 0 .. Long + 2} :
               /\ size < Pow2(Mantissa) * u
               /\ u = 1 \/ size >= Pow2(Mantissa - 1) * u
      q == twice \div ulp
      r == twice % ulp
  IN IF 2 * r < ulp \/ (2 * r = ulp /\ q % 2 = 0) THEN q * ulp ELSE (q + 1) * ulp

AsDouble(twice, reported) ==
  [twice |-> DoubleOf(twice),
   exact |-> reported => DoubleOf(twice) = twice]

\* static_cast to an integer type with this range
Cast(n, lo, hi) == lo + ((n - lo) % (hi - lo + 1))

(* Variant: the lower bound is not checked.                                *)
ParseNarrowUnchecked(lo, hi, twice) ==
  LET read == AsSigned(Wide, twice)
  IN IF read.exact /\ read.n <= hi
     THEN Stored(Number(2 * Cast(read.n, lo, hi))) ELSE Failed

(* uint8, int8, uint16, int16, uint32: read through a wider signed type.   *)
ParseNarrow(lo, hi, twice) ==
  LET read == AsSigned(Wide, twice)
  IN IF read.exact /\ read.n >= lo /\ read.n <= hi
     THEN Stored(Number(2 * Cast(read.n, lo, hi))) ELSE Failed

(* int32, int64: straight into the destination, also when it fails.        *)
ParseWide(twice) ==
  LET read == AsSigned(Wide, twice)
  IN [ok |-> read.exact, value |-> Number(2 * read.n)]

(* uint64: read through a double.  UINT64_MAX is compared as a double too, *)
(* and rounds up.                                                          *)
ParseLong(twice, reported) ==
  LET read == AsDouble(twice, reported)
      max == Pow2(Long) - 1
  IN IF ~read.exact \/ read.twice < 0 \/ read.twice > DoubleOf(2 * max)
        \/ read.twice % 2 = 1
     THEN Failed
     ELSE Stored(IF read.twice <= 2 * max THEN Number(read.twice) ELSE Undefined)

(* What pbnjson leaves open: whether it flags a double it had to round,    *)
(* and whether isNull() holds of a JValue that failed to parse.            *)
Library == [lossReported : BOOLEAN, invalidIsNull : BOOLEAN]

NumberTypes == {"uint8", "int8", "int32", "uint64", "double"}

ParseNumber(type, twice, lib) ==
  CASE type = "uint8"  -> ParseNarrow(0, Pow2(Narrow) - 1, twice)
    [] type = "int8"   -> ParseNarrow(-Pow2(Narrow - 1), Pow2(Narrow - 1) - 1, twice)
    [] type = "int32"  -> ParseWide(twice)
    [] type = "uint64" -> ParseLong(twice, lib.lossReported)
    [] type = "double" -> Stored(Number(DoubleOf(twice)))

(* parseValue<T> and parseValueOrDataObject<T>.  parseFromJson of a        *)
(* JsonDataObject is client code: it takes a good object and throws        *)
(* JsonParseError for another.                                             *)
ParseValue(type, v, lib) ==
  CASE type \in NumberTypes ->
         IF IsNumeric(v) THEN ParseNumber(type, Twice(v), lib) ELSE Failed
    [] type = "bool" -> IF v.kind = "bool" THEN Stored(v) ELSE Failed
    [] type = "string" -> IF v.kind = "string" THEN Stored(v) ELSE Failed
    [] type = "JsonDataObject" ->
         IF v.kind = "object" /\ v.good THEN Stored(v) ELSE Failed
    [] type = "JValue" -> Stored(v)

(* The widths: a narrow type fits into the one it is read through, and the *)
(* greatest uint64 rounds up.                                              *)
ASSUME ParserAssumption ==
  /\ Narrow \in Nat /\ Wide \in Nat /\ Long \in Nat /\ Mantissa \in Nat
  /\ 0 < Narrow /\ Narrow < Wide /\ Wide <= Long /\ 1 < Mantissa /\ Mantissa < Long
  /\ \A bits \in {Narrow - 1, Narrow, Wide - 1, Long} : Pow2(bits) \in Nat \ {0}
  /\ Unsigned(Narrow) \subseteq Signed(Wide) /\ Signed(Narrow) \subseteq Signed(Wide)
  /\ DoubleOf(2 * (Pow2(Long) - 1)) = 2 * Pow2(Long)
  /\ Low \in Int /\ High \in Int
  /\ Keys \cap {"none", "malformed", "strict"} = {}

-----------------------------------------------------------------------------
(* Looking a field up.  The result says whether the destination was read,  *)
(* whether the field was found to be null, whether an error was recorded   *)
(* and what the destination holds.                                         *)

IsNull(v, lib) == \/ v.kind = "null"
                  \/ v.kind = "malformed" /\ lib.invalidIsNull

NotRead(null, error) ==
  [read |-> FALSE, null |-> null, error |-> error, from |-> "untouched",
   value |-> Null]
Read(value) ==
  [read |-> TRUE, null |-> FALSE, error |-> FALSE, from |-> "field",
   value |-> value]

(* getImpl: null maps to not set; an exception of the conversion is an     *)
(* error.                                                                  *)
GetImpl(type, hasKey, v, lib) ==
  IF ~hasKey THEN NotRead(FALSE, FALSE)
  ELSE IF IsNull(v, lib) THEN NotRead(TRUE, FALSE)
  ELSE LET parsed == ParseValue(type, v, lib)
       IN IF parsed.ok THEN Read(parsed.value)
          ELSE [NotRead(FALSE, TRUE) EXCEPT !.from = "failed"]

(* The context of an inner get(...).optional() has recorded an error when  *)
(* the conversion failed and when the field is null.                       *)
InnerError(inner) == inner.error \/ inner.null

\* get
GetValue(type, hasKey, v, lib) == GetImpl(type, hasKey, v, lib)

\* getFromString
GetFromString(type, hasKey, v, lib) ==
  LET inner == GetImpl("string", hasKey, v, lib)
  IN IF inner.read THEN GetImpl(type, TRUE, inner.value.content, lib)
                   ELSE NotRead(FALSE, InnerError(inner))

(* The table given to getAndMap, the same for the three overloads.         *)
ValueMap == [v \in {Text(Malformed)} |-> Number(2)]

\* getAndMap
GetAndMap(type, hasKey, v, lib) ==
  LET inner == GetImpl(type, hasKey, v, lib)
  IN IF ~inner.read THEN NotRead(FALSE, InnerError(inner))
     ELSE IF inner.value \in DOMAIN ValueMap THEN Read(ValueMap[inner.value])
     ELSE NotRead(FALSE, TRUE)

(* getArray: each item has a context of its own, which is mandatory.  What *)
(* is not an array leaves the destination as it was, marked as read.       *)
GetArray(type, hasKey, v, lib) ==
  LET inner == GetImpl("JValue", hasKey, v, lib)
  IN IF ~inner.read THEN NotRead(FALSE, InnerError(inner))
     ELSE IF v.kind # "array" THEN [Read(v) EXCEPT !.error = TRUE,
                                                   !.from = "untouched"]
     ELSE LET items == [i \in DOMAIN v.items |->
                          GetImpl(type, TRUE, v.items[i], lib)]
          IN [Read(ArrayOf([i \in DOMAIN items |-> items[i].value])) EXCEPT
                !.error = \E i \in DOMAIN items : ~items[i].read]

(* What client code asks for: the method and the type it converts to.      *)
Requests ==
  ({"get"} \X (NumberTypes \cup {"bool", "string", "JsonDataObject", "JValue"}))
  \cup ({"getFromString"} \X {"int32", "JValue"})
  \cup ({"getAndMap"} \X {"string", "int32"})
  \cup ({"getArray"} \X {"int8", "JValue"})

Lookup(request, hasKey, v, lib) ==
  LET type == request[2]
  IN CASE request[1] = "get"           -> GetValue(type, hasKey, v, lib)
       [] request[1] = "getFromString" -> GetFromString(type, hasKey, v, lib)
       [] request[1] = "getAndMap"     -> GetAndMap(type, hasKey, v, lib)
       [] request[1] = "getArray"      -> GetArray(type, hasKey, v, lib)

-----------------------------------------------------------------------------
VARIABLES
  doc,            \* _jsonValue
  numberOfFields, \* _numberOfFields
  parseError,     \* the field _parseError names; NoError when it is empty
  field,          \* the JsonParseContext, and what the destination holds
  lookups,        \* history: the fields looked up, with the verdict on each
  cleared,        \* history: lookups before the last clearError, -1 at first
  outcome         \* of finishParse

vars == <<doc, numberOfFields, parseError, field, lookups, cleared, outcome>>

NoError == "none"
Has(key) == doc.kind = "document" /\ key \in DOMAIN doc.fields
ValueAt(key) == IF Has(key) THEN doc.fields[key] ELSE Null

\* A field of the document the parser has not been asked for yet.
NoField == [open |-> FALSE, key |-> NoError, request |-> <<"get", "JValue">>,
            read |-> FALSE, null |-> FALSE, copied |-> FALSE, optional |-> FALSE,
            allowNull |-> FALSE, from |-> "untouched", value |-> Null,
            default |-> FALSE, checks |-> {}]

Init ==
  /\ doc \in Documents
  /\ numberOfFields = 0
  /\ parseError = IF doc = Malformed THEN "malformed" ELSE NoError
  /\ field = NoField
  /\ lookups = << >>
  /\ cleared = -1
  /\ outcome = "none"

(* Variant: the last error wins.                                           *)
RecordLastError(who, failed) ==
  parseError' = IF failed THEN who ELSE parseError

(* recordError: the first error is kept.                                   *)
RecordError(who, failed) ==
  parseError' = IF failed /\ parseError = NoError THEN who ELSE parseError
(* Variant: counted for the inner and for the outer lookup.                *)
CountTwice(key) ==
  numberOfFields' = numberOfFields + (IF Has(key) THEN 2 ELSE 0)

(* Variant: a missing field is counted, too.                               *)
CountAll(key) == numberOfFields' = numberOfFields + 1

(* Fields found are counted, for the strict check.                         *)
CountField(key) ==
  numberOfFields' = numberOfFields + (IF Has(key) THEN 1 ELSE 0)

Parsing == outcome = "none"
Between == Parsing /\ ~field.open

(* get, getFromString, getAndMap, getArray up to the return of the         *)
(* JsonParseContext.                                                       *)
Get(key, request) ==
  /\ Between
  /\ Len(lookups) < MaxFields(doc)
  /\ \E lib \in Library :
       LET found == Lookup(request, Has(key), ValueAt(key), lib)
       IN /\ field' = [NoField EXCEPT !.open = TRUE, !.key = key,
                         !.request = request, !.read = found.read,
                         !.null = found.null, !.from = found.from,
                         !.value = found.value]
          /\ RecordError(key, found.error)
  /\ CountField(key)
  /\ UNCHANGED <<doc, lookups, cleared, outcome>>

InChain == Parsing /\ field.open

(* The copy constructor, for client code that gives the end of a chain a   *)
(* name: everything is copied but _valueNull, which is left uninitialized. *)
(* (It is not looked at when the value was read, and the copy is equal.)   *)
CopyContext ==
  /\ InChain
  /\ ~field.copied /\ ~field.read
  /\ \E null \in BOOLEAN :
       field' = [field EXCEPT !.copied = TRUE, !.null = null]
  /\ UNCHANGED <<doc, numberOfFields, parseError, lookups, cleared, outcome>>

(* optional(b), allowNull(b): the last one counts.                         *)
Optional(b) ==
  /\ InChain
  /\ field' = [field EXCEPT !.optional = b]
  /\ UNCHANGED <<doc, numberOfFields, parseError, lookups, cleared, outcome>>

AllowNull(b) ==
  /\ InChain
  /\ field' = [field EXCEPT !.allowNull = b]
  /\ UNCHANGED <<doc, numberOfFields, parseError, lookups, cleared, outcome>>

(* Variant: the default is assigned in any case.                           *)
DefaultAlways ==
  /\ InChain
  /\ field' = [field EXCEPT !.default = TRUE, !.from = "default"]
  /\ UNCHANGED <<doc, numberOfFields, parseError, lookups, cleared, outcome>>

DefaultValue ==
  /\ InChain
  /\ field' = [field EXCEPT !.default = TRUE,
                            !.from = IF field.read THEN @ ELSE "default"]
  /\ UNCHANGED <<doc, numberOfFields, parseError, lookups, cleared, outcome>>

Within(check, twice) ==
  CASE check = "min" -> twice >= 2 * Low
    [] check = "max" -> twice <= 2 * High
    [] check = "allowedValues" -> twice \in {2 * Low, 2 * High}

(* min, max, allowedValues: a number that was read is compared.            *)
Check(check) ==
  /\ InChain
  /\ field.request[1] = "get" /\ field.request[2] \in NumberTypes
  /\ field.value # Undefined
  /\ field' = [field EXCEPT !.checks = @ \cup {check}]
  /\ RecordError(field.key, field.read /\ ~Within(check, field.value.twice))
  /\ UNCHANGED <<doc, numberOfFields, lookups, cleared, outcome>>

-----------------------------------------------------------------------------
(* What the comments of the header say of a field: the reference.          *)

IntegerRange == [uint8  |-> Unsigned(Narrow), int8   |-> Signed(Narrow),
                 int32  |-> Signed(Wide),     uint64 |-> Unsigned(Long)]

(* "field type does not correspond to the destination type", "integral     *)
(* field value does not fit in destination type"                           *)
Fits(type, v) ==
  CASE type \in DOMAIN IntegerRange ->
         IsNumeric(v) /\ \E n \in IntegerRange[type] : Twice(v) = 2 * n
    [] type = "double" -> IsNumeric(v)
    [] type = "bool" -> v.kind = "bool"
    [] type = "string" -> v.kind = "string"
    [] type = "JsonDataObject" -> v.kind = "object" /\ v.good
    [] type = "JValue" -> v.kind # "malformed"

(* The value the field stands for: itself, or what its string says.        *)
Meant(request, v) == IF request[1] = "getFromString" /\ v.kind = "string"
                     THEN v.content ELSE v

Convertible(request, v) ==
  CASE request[1] = "get" -> Fits(request[2], v)
    [] request[1] = "getFromString" -> v.kind = "string" /\ Fits(request[2], v.content)
    [] request[1] = "getAndMap" -> Fits(request[2], v) /\ v \in DOMAIN ValueMap
    [] request[1] = "getArray" ->
         /\ v.kind = "array"
         /\ \A i \in DOMAIN v.items :
              v.items[i] # Null /\ Fits(request[2], v.items[i])

\* A value as its destination type holds it.
Held(type, v) == CASE type \in DOMAIN IntegerRange -> Number(Twice(v))
                   [] type = "double" -> Number(DoubleOf(Twice(v)))
                   [] OTHER -> v

\* What a convertible field stands for.
Expected(request, v) ==
  CASE request[1] = "getAndMap" -> ValueMap[v]
    [] request[1] = "getArray" ->
         ArrayOf([i \in DOMAIN v.items |-> Held(request[2], v.items[i])])
    [] OTHER -> Held(request[2], Meant(request, v))

(* A field that is missing must be optional; one that is null, optional    *)
(* and nullable; any other must convert and satisfy the checks.            *)
Valid(f) ==
  IF ~Has(f.key) THEN f.optional
  ELSE IF Meant(f.request, ValueAt(f.key)) = Null THEN f.optional /\ f.allowNull
  ELSE /\ Convertible(f.request, ValueAt(f.key))
       /\ \A check \in f.checks : Within(check, Expected(f.request, ValueAt(f.key)).twice)

(* Where the code is known to disagree: uint64 numbers a double cannot     *)
(* hold, and the first number past its range; null in a field read by the  *)
(* other three methods; a string that is not JSON; and a copied context,   *)
(* which does not know whether the field was null.                         *)
Disputed(f) ==
  LET v == ValueAt(f.key)
  IN \/ /\ f.request = <<"get", "uint64">> /\ IsNumeric(v)
        /\ \/ DoubleOf(Twice(v)) # Twice(v)
           \/ Twice(v) = 2 * Pow2(Long)
     \/ v = Null /\ f.request[1] # "get"
     \/ v = Text(Malformed) /\ f.request[1] = "getFromString"
     \/ Meant(f.request, v) = Null /\ f.copied /\ f.optional /\ ~f.allowNull

Verdict(f) == IF Disputed(f) THEN "either"
              ELSE IF Valid(f) THEN "valid" ELSE "invalid"

-----------------------------------------------------------------------------
(* ~JsonParseContext, finishParse of one field: what it finds wrong.       *)
FinishField ==
  /\ ~field.read
  /\ ~field.optional \/ (field.null /\ ~field.allowNull)

(* The context goes; its key, its request and the destination are kept for *)
(* DestinationTrustworthy.  operator bool ends a chain as well: it does    *)
(* the same check, and the destructor that follows finds nothing new.      *)
EndField ==
  /\ InChain
  /\ field' = [field EXCEPT !.open = FALSE, !.null = FALSE, !.copied = FALSE,
                            !.optional = FALSE, !.allowNull = FALSE, !.checks = {}]
  /\ RecordError(field.key, FinishField)
  /\ lookups' = Append(lookups, [key |-> field.key, verdict |-> Verdict(field)])
  /\ UNCHANGED <<doc, numberOfFields, cleared, outcome>>

(* getObject: a mandatory get of a JValue that must be an object.  The     *)
(* parser it returns is another JsonParser.                                *)
GetObject(key) ==
  /\ Between
  /\ Len(lookups) < MaxFields(doc)
  /\ LET good == ValueAt(key).kind = "object"
     IN /\ RecordError(key, ~good)
        /\ lookups' = Append(lookups,
             [key |-> key, verdict |-> IF good THEN "valid" ELSE "invalid"])
  /\ field' = NoField
  /\ CountField(key)
  /\ UNCHANGED <<doc, cleared, outcome>>

ClearError ==
  /\ Between
  /\ parseError # NoError
  /\ parseError' = NoError
  /\ cleared' = Len(lookups)
  /\ UNCHANGED <<doc, numberOfFields, field, lookups, outcome>>

Size == IF doc = Malformed THEN 0 ELSE Cardinality(DOMAIN doc.fields)

(* finishParse(strict); finishParseOrThrow throws where this refuses.      *)
FinishParse(strict) ==
  /\ Between
  /\ RecordError("strict", strict /\ numberOfFields # Size)
  /\ outcome' = IF parseError' = NoError
                THEN IF strict THEN "acceptedStrictly" ELSE "accepted"
                ELSE "refused"
  /\ UNCHANGED <<doc, numberOfFields, field, lookups, cleared>>

-----------------------------------------------------------------------------
ChainStep == \/ \E b \in BOOLEAN : Optional(b) \/ AllowNull(b)
             \/ CopyContext \/ DefaultValue
             \/ \E check \in {"min", "max", "allowedValues"} : Check(check)
             \/ EndField

Next == \/ \E key \in Keys : GetObject(key) \/ \E request \in Requests : Get(key, request)
        \/ ChainStep
        \/ ClearError
        \/ \E strict \in BOOLEAN : FinishParse(strict)

Spec == Init /\ [][Next]_vars

-----------------------------------------------------------------------------
(* Properties *)

Kinds == {"null", "bool", "number", "string", "array", "object", "undefined",
          "malformed"}

(* Type invariant.                                                         *)
TypeOK ==
  /\ doc \in Documents
  /\ numberOfFields \in 0 .. MaxFields(doc)
  /\ parseError \in Keys \cup {NoError, "malformed", "strict"}
  /\ field.key \in Keys \cup {NoError} /\ field.request \in Requests
  /\ field.from \in {"untouched", "failed", "default", "field"}
  /\ field.value.kind \in Kinds
  /\ field.read => ~field.null
  /\ \A i \in DOMAIN lookups : lookups[i].verdict \in {"valid", "invalid", "either"}
  /\ cleared \in -1 .. Len(lookups)
  /\ outcome \in {"none", "accepted", "acceptedStrictly", "refused"}

\* The fields looked up since the last clearError.
Counted == {i \in DOMAIN lookups : i > cleared}

(* "Does final checks if parsing is successful": as long as there is no    *)
(* error, no field looked up was missing, null, of another type, out of    *)
(* range or outside its limits, unless the header allows it.               *)
NoInvalidAccepted ==
  ~field.open /\ parseError = NoError =>
    /\ doc = Malformed => cleared >= 0
    /\ \A i \in Counted : lookups[i].verdict # "invalid"

(* "JsonParser stores only the first error encountered": an error names    *)
(* the first field since clearError that the header rules out; nothing it  *)
(* allows is refused.                                                      *)
ErrorNamesFirstInvalid ==
  ~field.open /\ parseError \in Keys =>
    \E i \in Counted :
      /\ lookups[i].key = parseError
      /\ lookups[i].verdict # "valid"
      /\ \A j \in Counted : j < i => lookups[j].verdict # "invalid"

(* What a caller may use when no error is reported: the value of the field *)
(* if checkValueRead says so, else the default if one was given, else the  *)
(* variable as it was.  The value is exact, but for a double, which is the *)
(* nearest; a uint64 that a double cannot hold, or the first past the      *)
(* range, is Disputed, and nothing is said of it.                          *)
DestinationTrustworthy ==
  ~field.open /\ parseError = NoError /\ cleared < Len(lookups) /\ ~Disputed(field) =>
    IF field.read
    THEN field.from = "field" /\ field.value = Expected(field.request, ValueAt(field.key))
    ELSE field.from = IF field.default THEN "default" ELSE "untouched"

(* "if true, considers extra fields in request as an error": strict mode   *)
(* accepts only if all fields were looked up, and objects to nothing else. *)
(* The check counts lookups: each one of a field that was looked up before *)
(* can hide one field that was not, or be objected to.                     *)
StrictFindsUnknown ==
  LET asked == {lookups[i].key : i \in DOMAIN lookups}
      repeated == Len(lookups) - Cardinality(asked)
      unknown == IF doc = Malformed THEN {} ELSE DOMAIN doc.fields \ asked
  IN /\ outcome = "acceptedStrictly" => Cardinality(unknown) <= repeated
     /\ parseError = "strict" => unknown # {} \/ repeated > 0
=============================================================================
