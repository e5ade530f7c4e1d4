----------------------------- MODULE Calculator -----------------------------
(***************************************************************************)
(* What the calculator of network_code/socket_tcp2 computes: a line the    *)
(* user enters is scanned by calClient::ParseLine, becomes a Request, is   *)
(* written as text and read again on the other side, calculated by cal,    *)
(* and the Response goes back the same way.  The text form is the one of   *)
(* the MYSELF build ("x op y", "exitcode result"); how the bytes travel is *)
(* in CalSession.  A string is a sequence of one-character strings.        *)
(***************************************************************************)
EXTENDS Integers, Sequences, SequencesExt, FiniteSetsExt

CONSTANTS
  Alphabet,   \* the characters of a line, the space being the only blank
  MaxLine,    \* the length of the longest line
  MaxInt,     \* INT_MAX, one less than a power of two
  NotSet      \* the value of an uninitialised char

(* The exit codes are ints.                                                *)
ASSUME CalculatorAssumption == MaxLine \in Nat /\ MaxInt \in Nat /\ MaxInt >= 3

VARIABLES
  stage,              \* which function is next
  line,               \* the line
  i, status, left, op, right,   \* the locals of ParseLine
  req,                \* the Request as a side holds it
  content,            \* the text under way
  resp                \* the Response as a side holds it

scan == <<i, status, left, op, right>>
lineVars == <<stage, line, scan, req, content, resp>>

Digits == <<"0", "1", "2", "3", "4", "5", "6", "7", "8", "9">>
SEP == " "
MinInt == -MaxInt - 1
Ints == MinInt .. MaxInt
ExitCodes == [OK |-> 0, DIV_ZERO |-> 1, MOD_ZERO |-> 2, OP_ERROR |-> 3]

isdigit(c) == \E k \in DOMAIN Digits : Digits[k] = c

(* A value of unbounded integers as an int: signed overflow wraps around.  *)
Wrap(n) == ((n - MinInt) % (2 * (MaxInt + 1))) + MinInt
-----------------------------------------------------------------------------
(* Conversions                                                             *)

DigitValue(c) == (CHOOSE k \in DOMAIN Digits : Digits[k] = c) - 1

Decimal(digits) ==
  LET value[k \in 0 .. Len(digits)] ==
        IF k = 0 THEN 0 ELSE 10 * value[k - 1] + DigitValue(digits[k])
  IN value[Len(digits)]

(* The longest prefix of s whose characters all satisfy a test.            *)
Prefix(s, Test(_)) ==
  LET ends == {k \in 0 .. Len(s) : \A j \in 1 .. k : Test(s[j])}
  IN SubSeq(s, 1, Max(ends))

IsBlank(c) == c = SEP

(* std::stoi: leading blanks, a sign, digits; what follows is ignored.  It *)
(* throws without digits and out of the range of int: then the set of its  *)
(* results is empty.                                                       *)
stoi(s) ==
  LET signed == SubSeq(s, Len(Prefix(s, IsBlank)) + 1, Len(s))
      sign == IF signed # <<>> /\ signed[1] = "-" THEN -1 ELSE 1
      number == IF signed # <<>> /\ signed[1] \in {"+", "-"} THEN Tail(signed) ELSE signed
      digits == Prefix(number, isdigit)
  IN {n \in {sign * Decimal(digits)} : digits # <<>> /\ n \in Ints}

decimal[k \in Nat] ==
  IF k < 10 THEN <<Digits[k + 1]>> ELSE Append(decimal[k \div 10], Digits[(k % 10) + 1])

to_string(n) == IF n < 0 THEN <<"-">> \o decimal[-n] ELSE decimal[n]

Positions(s) == {k \in DOMAIN s : s[k] = SEP}

serializeRequest(r) ==
  to_string(r.x) \o <<SEP, r.op, SEP>> \o to_string(r.y)

(* find and rfind of the separator must be one character apart.            *)
deserializeRequest(s) ==
  LET l == Min(Positions(s)) r == Max(Positions(s)) IN
  IF \/ Positions(s) = {} \/ l = r \/ r - (l + 1) # 1
     \/ SubSeq(s, 1, l - 1) = <<>> \/ SubSeq(s, r + 1, Len(s)) = <<>>
  THEN {}
  ELSE {[x |-> x, op |-> s[l + 1], y |-> y] :
          x \in stoi(SubSeq(s, 1, l - 1)), y \in stoi(SubSeq(s, r + 1, Len(s)))}

ResultFirst(r) ==  \* mutant: the two numbers change places
  to_string(r.result) \o <<SEP>> \o to_string(r.exitcode)

serializeResponse(r) == to_string(r.exitcode) \o <<SEP>> \o to_string(r.result)

deserializeResponse(s) ==
  LET mid == Min(Positions(s)) IN
  IF Positions(s) = {} THEN {}
  ELSE {[exitcode |-> e, result |-> n] :
          e \in stoi(SubSeq(s, 1, mid - 1)), n \in stoi(SubSeq(s, mid + 1, Len(s)))}
-----------------------------------------------------------------------------
Magnitude(n) == IF n < 0 THEN -n ELSE n

(* C++ division truncates.                                                 *)
Quotient(x, y) == (IF (x < 0) = (y < 0) THEN 1 ELSE -1) * (Magnitude(x) \div Magnitude(y))

Remainder(x, y) == x - y * Quotient(x, y)

Operators == {"+", "-", "*", "/", "%"}

(* A zero divisor is its own result.  Dividing MinInt by -1 would trap, but*)
(* the left operand of a line has no sign.                                 *)
Result(r) ==
  CASE r.op = "+" -> Wrap(r.x + r.y)
    [] r.op = "-" -> Wrap(r.x - r.y)
    [] r.op = "*" -> Wrap(r.x * r.y)
    [] r.op \in {"/", "%"} /\ r.y = 0 -> r.y
    [] r.op = "/" /\ r.y # 0 -> Quotient(r.x, r.y)
    [] r.op = "%" /\ r.y # 0 -> Remainder(r.x, r.y)
    [] OTHER -> ExitCodes.OK

cal(r) ==
  [exitcode |-> CASE r.op \notin Operators -> ExitCodes.OP_ERROR
                  [] r.op = "/" /\ r.y = 0 -> ExitCodes.DIV_ZERO
                  [] r.op = "%" /\ r.y = 0 -> ExitCodes.MOD_ZERO
                  [] OTHER -> ExitCodes.OK,
   result |-> Result(r)]
-----------------------------------------------------------------------------
Lines == UNION {[1 .. n -> Alphabet] : n \in 0 .. MaxLine}

Calculations == [x : Ints, op : Alphabet, y : Ints]

Responses == [exitcode : 0 .. 3, result : Ints]

LineTypeOK ==
  /\ stage \in {"scan", "serialize", "deserialize", "cal", "reply", "receive",
                "print", "threw", "closed"}
  /\ i \in 1 .. Len(line) + 1
  /\ status \in 0 .. 2
  /\ op \in Alphabet \cup {NotSet}
  /\ req \in Calculations \cup {NotSet}
  /\ resp \in Responses \cup {NotSet}

LineInit ==
  /\ stage = "scan"
  /\ line \in Lines
  /\ i = 1 /\ status = 0 /\ left = <<>> /\ op = NotSet /\ right = <<>>
  /\ req = NotSet /\ content = <<>> /\ resp = NotSet

Scanning(s) == stage = "scan" /\ i <= Len(line) /\ status = s

(* case 0: before the operator.                                            *)
Before ==
  /\ Scanning(0)
  /\ IF isdigit(line[i])
     THEN left' = Append(left, line[i]) /\ i' = i + 1 /\ UNCHANGED <<op, status>>
     ELSE op' = line[i] /\ status' = 1 /\ UNCHANGED <<left, i>>
  /\ UNCHANGED <<stage, line, right, req, content, resp>>

OperatorNotSkipped ==  \* mutant: case 1 without i++
  /\ Scanning(1)
  /\ status' = 2
  /\ UNCHANGED <<stage, line, i, left, op, right, req, content, resp>>

(* case 1: at the operator.                                                *)
At ==
  /\ Scanning(1)
  /\ i' = i + 1
  /\ status' = 2
  /\ UNCHANGED <<stage, line, left, op, right, req, content, resp>>

(* case 2: after the operator.                                             *)
After ==
  /\ Scanning(2)
  /\ right' = Append(right, line[i])
  /\ i' = i + 1
  /\ UNCHANGED <<stage, line, status, left, op, req, content, resp>>

(* The end of ParseLine; nothing catches what stoi throws.                 *)
Build ==
  /\ stage = "scan" /\ i > Len(line)
  /\ \/ \E x \in stoi(left), y \in stoi(right) :
          stage' = "serialize" /\ req' = [x |-> x, op |-> op, y |-> y]
     \/ (stoi(left) = {} \/ stoi(right) = {}) /\ stage' = "threw" /\ UNCHANGED req
  /\ UNCHANGED <<line, scan, content, resp>>

SerializeRequest ==
  /\ stage = "serialize"
  /\ stage' = "deserialize"
  /\ content' = serializeRequest(req)
  /\ UNCHANGED <<line, scan, req, resp>>

DeserializeRequest ==
  /\ stage = "deserialize"
  /\ \/ \E r \in deserializeRequest(content) : stage' = "cal" /\ req' = r
     \/ deserializeRequest(content) = {} /\ stage' = "closed" /\ UNCHANGED req
  /\ UNCHANGED <<line, scan, content, resp>>

Calculate ==
  /\ stage = "cal"
  /\ stage' = "reply"
  /\ resp' = cal(req)
  /\ UNCHANGED <<line, scan, req, content>>

SerializeResponse ==
  /\ stage = "reply"
  /\ stage' = "receive"
  /\ content' = serializeResponse(resp)
  /\ UNCHANGED <<line, scan, req, resp>>

(* On failure the client prints the default Response.                      *)
DeserializeResponse ==
  /\ stage = "receive"
  /\ stage' = "print"
  /\ \/ resp' \in deserializeResponse(content)
     \/ deserializeResponse(content) = {} /\ resp' = [exitcode |-> 0, result |-> 0]
  /\ UNCHANGED <<line, scan, req, content>>

LineNext ==
  \/ Before \/ At \/ After \/ Build
  \/ SerializeRequest \/ DeserializeRequest \/ Calculate
  \/ SerializeResponse \/ DeserializeResponse

LineSpec == LineInit /\ [][LineNext]_lineVars /\ WF_lineVars(LineNext)
-----------------------------------------------------------------------------
(* The reference: a line is an operand of digits, one other character, and *)
(* an operand stoi can read.                                               *)
Operand1 == Prefix(line, isdigit)
Rest == SubSeq(line, Len(Operand1) + 2, Len(line))
Operator == line[Len(Operand1) + 1]
Readable ==
  /\ Len(Operand1) < Len(line)
  /\ stoi(Operand1) # {} /\ stoi(Rest) # {}

Fails(o, y) == o \notin Operators \/ (o \in {"/", "%"} /\ y = 0)

(* n is the value of x o y, modulo the width of int; division truncates.   *)
Value(x, o, y, n) ==
  LET same(m) == (n - m) % (2 * (MaxInt + 1)) = 0 IN
  CASE o = "+" -> same(x + y)
    [] o = "-" -> same(x - y)
    [] o = "*" -> same(x * y)
    [] o = "/" -> \E r \in Ints : x = n * y + r /\ Magnitude(r) < Magnitude(y) /\ r * x >= 0
    [] o = "%" -> \E q \in Ints : x = q * y + n /\ Magnitude(n) < Magnitude(y) /\ n * x >= 0

(* What the client prints is the value of the line; the exit code is not   *)
(* zero exactly when there is none (calClient.hpp:82-116,                  *)
(* protocol.hpp:63-192, calServer.cc:10-35).                               *)
EndToEnd ==
  stage = "print" =>
    \A x \in stoi(Operand1), y \in stoi(Rest) :
      /\ (resp.exitcode # ExitCodes.OK) <=> Fails(Operator, y)
      /\ ~Fails(Operator, y) => Value(x, Operator, y, resp.result)

(* Every line ends: those that can be read with a printed response, the    *)
(* others in the client alone, and no request carries an operator that     *)
(* was never set (calClient.hpp:88-115).                                   *)
LinesEnd ==
  <>[](IF Readable THEN stage = "print" /\ req.op = Operator ELSE stage = "threw")

=============================================================================
