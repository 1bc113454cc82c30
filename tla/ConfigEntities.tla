--------------------------- MODULE ConfigEntities ---------------------------
(***************************************************************************)
(* The configuration entities of number.py, text.py, date.py and           *)
(* select.py: what each shows of the gateway's configuration, when it is   *)
(* available, and what a service call on it posts.  A case is one entity,  *)
(* the data its coordinator holds, the value a user asks for and the       *)
(* gateway's answer.                                                       *)
(*                                                                         *)
(* A number is counted in half steps of its field.  A text is abstracted   *)
(* to how many digits it has, which other characters are among them,       *)
(* whether white space surrounds it, and the number its digits spell.      *)
(***************************************************************************)
EXTENDS Integers, FiniteSets

CONSTANTS Lowest, Highest,  \* range of a number field, in half steps
          MaxLength,        \* longest text, and most digits of a phone number
          MaxCode           \* highest installer menu code

ASSUME ConfigRanges ==
    /\ Lowest \in Int /\ Highest \in Int /\ Lowest <= Highest
    /\ Lowest % 2 = 0 /\ Highest % 2 = 0
    /\ MaxLength \in Nat /\ MaxCode \in Nat

Numbers == {"boiler_number", "circuit_number", "system_number", "bivalence", "humidity"}
Texts == {"installer_name", "installer_phone", "boiler_phone", "system_code", "boiler_code"}
Entities == Numbers \cup Texts \cup {"maintenance_date", "room_control"}

Cell(kind, at) == [kind |-> kind, at |-> at]
None == Cell("none", 0)      \* no value; as a posted value: nothing is posted
Finite(at) == Cell("finite", at)

Text(digits, marks, edge, number) ==
    [kind |-> "text", digits |-> digits, marks |-> marks, edge |-> edge, at |-> number]

\* len() of a text; what surrounds it and each kind of mark is one character
Length(t) == t.digits + Cardinality(t.marks) + (IF t.edge THEN 1 ELSE 0)
Stripped(t) == [t EXCEPT !.edge = FALSE]

-----------------------------------------------------------------------------
(* Reading: native_value, current_option *)

\* float(value): a flag is a number, digits are parsed
AsFloat(v) ==
    CASE v.kind \in {"finite", "nan", "inf"} -> v
      [] v.kind \in {"digits", "flag"} -> Finite(v.at)
      [] OTHER -> None

\* A value that is shown only when it has the type the entity wants
Only(kind, v) == IF v.kind = kind THEN v ELSE None

\* A token is compared without its case and surrounding space
AsOption(v) == IF v.kind \in {"option", "untidy"} THEN Cell("option", v.at) ELSE None

\* A code is shown with all its digits, however it was stored
AsCode(v) == IF v.kind = "text" /\ v.digits > 0 THEN Text(3, {}, FALSE, v.at) ELSE v

-----------------------------------------------------------------------------
(* Checks of a value that is asked for; None: the call is refused *)

\* Mutant: the minimum is not checked
InRangeBelowMax(v, low, high) ==
    IF v.kind = "nan" \/ (v.kind = "finite" /\ v.at <= high) THEN v ELSE None

\* NaN is neither below the minimum nor above the maximum
InRange(v, low, high) ==
    IF v.kind = "nan" \/ (v.kind = "finite" /\ v.at \in low .. high) THEN v ELSE None

\* int(round(value)): to the even step in the middle, and NaN raises
Rounded(v) ==
    LET low == v.at \div 2
    IN IF v.kind # "finite" THEN None
       ELSE IF v.at % 2 = 0 THEN v
       ELSE Finite(IF low % 2 = 0 THEN 2 * low ELSE 2 * low + 2)

\* _effective_bounds: the controller's bounds when they are usable
Bounds(c) ==
    IF /\ c.bound.source \in {"controller_profile", "unmatched_policy"}
       /\ c.bound.min.kind = "finite" /\ c.bound.max.kind = "finite"
       /\ c.bound.min.at <= c.bound.max.at
    THEN [min |-> c.bound.min.at, max |-> c.bound.max.at]
    ELSE [min |-> Lowest, max |-> Highest]

FieldRange == [min |-> Lowest, max |-> Highest]
NoRange == [min |-> 0, max |-> 0]

WithMarks(t, allowed) == IF t.marks \subseteq allowed THEN t ELSE None
Short(t) == IF t # None /\ Length(t) > MaxLength THEN None ELSE t

\* Only the digits of a phone number go to the boiler
Digits(t) ==
    IF t.marks \subseteq {"sign", "space"} /\ t.digits <= MaxLength
    THEN Text(t.digits, {}, FALSE, t.at) ELSE None

\* The bare number of a code: leading zeros are not posted
Code(t) ==
    IF t.marks = {} /\ t.digits > 0 /\ t.at <= MaxCode
    THEN Text(1, {}, FALSE, t.at) ELSE None

-----------------------------------------------------------------------------
(* The entities.  available is the coordinator's last success, a trusted   *)
(* admission and, for installer fields, that the gateway serves them.      *)

View(available, shown, bounds, posts) ==
    [available |-> available, shown |-> shown, bounds |-> bounds, posts |-> posts]

Writable(c) == c.success /\ c.trusted

BoilerNumber(c) ==
    View(Writable(c), AsFloat(c.value), FieldRange, InRange(c.asked, Lowest, Highest))

CircuitNumber(c) ==
    View(Writable(c), AsFloat(c.value), FieldRange, InRange(c.asked, Lowest, Highest))

SystemNumber(c) ==
    LET bounds == IF c.entity = "bivalence" THEN Bounds(c) ELSE FieldRange
        checked == IF c.entity = "bivalence" /\ c.asked.kind = "nan" THEN None
                   ELSE InRange(c.asked, bounds.min, bounds.max)
    IN View(Writable(c), AsFloat(c.value), bounds,
            IF c.entity = "humidity" THEN Rounded(checked) ELSE checked)

SystemText(c) ==
    View(Writable(c) /\ c.served, c.value, NoRange,
         Short(WithMarks(c.asked, IF c.entity = "installer_phone" THEN {"sign", "space"}
                                  ELSE {"sign", "space", "letter"})))

BoilerText(c) == View(Writable(c) /\ c.served, c.value, NoRange, Digits(Stripped(c.asked)))

MenuCode(c) == View(Writable(c) /\ c.served, AsCode(c.value), NoRange, Code(Stripped(c.asked)))

\* Date 0 is 2015-01-01, which the controller uses for "no date": it is shown
\* like any other date but cannot be set
MaintenanceDate(c) ==
    View(Writable(c) /\ c.served, Only("date", c.value), NoRange,
         IF c.asked.at = 0 THEN None ELSE c.asked)

RoomTempControl(c) == View(Writable(c), AsOption(c.value), NoRange, AsOption(c.asked))

Entity(c) ==
    CASE c.entity = "boiler_number" -> BoilerNumber(c)
      [] c.entity = "circuit_number" -> CircuitNumber(c)
      [] c.entity \in {"system_number", "bivalence", "humidity"} -> SystemNumber(c)
      [] c.entity \in {"installer_name", "installer_phone"} -> SystemText(c)
      [] c.entity = "boiler_phone" -> BoilerText(c)
      [] c.entity \in {"system_code", "boiler_code"} -> MenuCode(c)
      [] c.entity = "maintenance_date" -> MaintenanceDate(c)
      [] OTHER -> RoomTempControl(c)

\* A call reaches the gateway after its value, the client and the admission
\* have been checked, in this order; it returns when the gateway reports
\* success, after a refresh, and raises otherwise
Posted(c) == IF c.client /\ c.trusted THEN Entity(c).posts ELSE None
Returns(c) == Posted(c) # None /\ c.answer = "success"

-----------------------------------------------------------------------------
(* The cases: c is a configuration entity, asked for something *)

AskedNumbers == {Finite(n) : n \in Lowest - 1 .. Highest + 1} \cup {Cell("nan", 0), Cell("inf", 0)}
SomeTexts == {Text(d, m, e, n) : d \in 0 .. MaxLength + 1,
                                 m \in SUBSET {"sign", "space", "letter", "foreign"},
                                 e \in BOOLEAN, n \in {0, MaxCode, MaxCode + 1}}
AskedTexts == {t \in SomeTexts : t.digits > 0 \/ t.at = 0}

Asked(e) ==
    CASE e \in Numbers -> AskedNumbers
      [] e \in Texts -> AskedTexts
      [] e = "maintenance_date" -> {Cell("date", 0), Cell("date", 1)}
      [] OTHER -> {Cell(k, 1) : k \in {"option", "untidy", "unknown"}}

Bound(source, min, max) == [source |-> source, min |-> min, max |-> max]
BoundCells == {Finite(Lowest - 1), Finite(Highest + 1), Cell("nan", 0), Cell("flag", 0), None}
BoundsFor(e) ==
    IF e = "bivalence"
    THEN {Bound(s, min, max) : s \in {"controller_profile", "other"},
                               min \in BoundCells, max \in BoundCells}
    ELSE {Bound("other", None, None)}

ConfigCase(e, asked, bound, gates, answer) ==
    [entity |-> e, value |-> None, asked |-> asked, bound |-> bound,
     success |-> gates.success, trusted |-> gates.trusted, client |-> gates.client,
     served |-> gates.served, answer |-> answer]

Gates == [success : BOOLEAN, trusted : BOOLEAN, client : BOOLEAN, served : BOOLEAN]

IsConfigCase(c) ==
    \E e \in Entities : \E asked \in Asked(e), bound \in BoundsFor(e), gates \in Gates,
        answer \in {"success", "failure"} : c = ConfigCase(e, asked, bound, gates, answer)

\* The gateway after it took a posted value: a code is kept as its number, and
\* everything else as it was posted (the gateway is not part of the source)
Took(c) == [c EXCEPT !.value = Posted(c)]

\* What is shown then says what was asked for
SaysTheSame(shown, asked, e) ==
    CASE e \in Numbers -> /\ shown.kind = asked.kind
                          /\ shown.at - asked.at \in {-1, 0, 1}
      [] e \in {"installer_name", "installer_phone"} -> shown = asked
      [] e = "boiler_phone" -> shown.digits = asked.digits /\ shown.at = asked.at
      [] OTHER -> shown.at = asked.at

-----------------------------------------------------------------------------

(***************************************************************************)
(* A call that returns was posted under a trusted admission, and after the *)
(* refresh that follows the entity shows what was asked for: a number      *)
(* within the bounds the entity advertises and less than one step away     *)
(* (NaN passes for every field but the DHW bivalence point), a text, code, *)
(* date or option unchanged but for what the boiler cannot store.  Asking  *)
(* for what is shown then posts the same value again (async_set_*, and     *)
(* native_value or current_option, of number.py, text.py, date.py and      *)
(* select.py).                                                             *)
(***************************************************************************)
ConfigWritesSettle(c) ==
    Returns(c) =>
        LET after == Entity(Took(c))
            again == [Took(c) EXCEPT !.asked = after.shown]
        IN /\ c.trusted /\ c.client
           /\ SaysTheSame(after.shown, c.asked, c.entity)
           /\ c.entity \in Numbers =>
                 \/ after.shown.at \in after.bounds.min .. after.bounds.max
                 \/ after.shown.kind = "nan" /\ c.entity \notin {"bivalence", "humidity"}
           /\ Posted(again) = Posted(c)

=============================================================================
