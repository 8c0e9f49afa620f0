------------------------------- MODULE Befunge -------------------------------
(***************************************************************************)
(* The Befunge interpreter of the KL 2010 crackme (parser.py).  The        *)
(* program is a list of lines of any length; cur_pos walks over it in      *)
(* cur_dir and wraps around at the borders.  An exception that parser.py   *)
(* does not catch ends it: status "died".                                  *)
(*                                                                         *)
(* Data: a character is a string and Ord gives its code; the backslash,    *)
(* the quote and the backquote go by these names.                          *)
(* What the program prints is left out, but not that chr() may refuse it.  *)
(***************************************************************************)
EXTENDS Integers, Sequences, FiniteSetsExt

CONSTANTS
  Sources,   \* programs: sequences of sequences of characters
  Ord,       \* codes of characters, a function
  Numbers,   \* what the user answers to &; 0 is any answer that is no number
  Letters,   \* codes of the characters that ~ reads
  MaxStack,  \* bound: elements of app_stack
  MaxValue   \* bound: size of an element

VARIABLES opcode_matrix, app_stack, cur_pos, cur_dir, VMStringStart, status

befungeVars == <<opcode_matrix, app_stack, cur_pos, cur_dir, VMStringStart, status>>

Line(y) == opcode_matrix[y + 1]
Lines == 0 .. Len(opcode_matrix) - 1
At(x, y) == [x |-> x, y |-> y]

\* What cur_pos is when `cur_pos = len(opcode_matrix)' has made it a number.
Number == At(-1, -1)

\* VMGetInstr finds a character.
IsCell(pos) == pos.y \in Lines /\ pos.x \in 0 .. Len(Line(pos.y)) - 1
VMGetInstr == Line(cur_pos.y)[cur_pos.x + 1]

-----------------------------------------------------------------------------
(* VMNextDirection.                                                        *)

Right(pos) == At(IF pos.x + 1 >= Len(Line(pos.y)) THEN 0 ELSE pos.x + 1, pos.y)
Left(pos) == At(IF 0 > pos.x - 1 THEN Len(Line(pos.y)) - 1 ELSE pos.x - 1, pos.y)

\* It calls itself until the line reaches column x: the nearest one above, and past
\* the first line the list cur_pos is overwritten.
Up(pos) ==
  LET above == {y \in Lines : y < pos.y /\ pos.x < Len(Line(y))}
  IN  IF above = {} THEN Number ELSE At(pos.x, Max(above))

\* Mutant of Down: lines are not asked for their length.
DownAnyLine(pos) ==
  LET below == {y \in Lines : y > pos.y}
  IN  At(pos.x, IF below = {} THEN 0 ELSE Min(below))

\* Past the last line it is the first one, without asking for its length.
Down(pos) ==
  LET below == {y \in Lines : y > pos.y /\ pos.x < Len(Line(y))}
  IN  At(pos.x, IF below = {} THEN 0 ELSE Min(below))

VMNextDirection(pos, dir) ==
  CASE dir = ">" -> Right(pos)
    [] dir = "<" -> Left(pos)
    [] dir = "^" -> Up(pos)
    [] dir = "v" -> Down(pos)

\* The end of the loop's body.
Move == cur_pos' = VMNextDirection(cur_pos, cur_dir')

-----------------------------------------------------------------------------
(* The stack; A is what VMPopAB pops first.                                *)

Size == Len(app_stack)
A == app_stack[Size]
B == app_stack[Size - 1]
Below(n) == SubSeq(app_stack, 1, Size - n)
VMPop == IF Size = 0 THEN 0 ELSE A
Rest == IF Size = 0 THEN <<>> ELSE Below(1)
Flag(holds) == IF holds THEN 1 ELSE 0

\* Python rounds a quotient down, and a remainder has the divisor's sign.
Quotient(b, a) == IF a > 0 THEN b \div a ELSE (-b) \div (-a)
Remainder(b, a) == b - a * Quotient(b, a)

Binary == {"+", "-", "*", "/", "%", "backquote"}
ValueOf(op) ==
  CASE op = "+" -> A + B
    [] op = "-" -> B - A
    [] op = "*" -> A * B
    [] op = "/" -> Quotient(B, A)
    [] op = "%" -> Remainder(B, A)
    [] op = "backquote" -> Flag(B > A)

Digits == {"0", "1", "2", "3", "4", "5", "6", "7", "8", "9"}
Directions == {">", "<", "^", "v"}

-----------------------------------------------------------------------------
(* One turn of the loop.  Instr(c): the character is an instruction.       *)

Running == status = "run" /\ IsCell(cur_pos)
Instr(chars) == Running /\ ~VMStringStart /\ VMGetInstr \in chars
Die == status' = "died" /\ UNCHANGED <<app_stack, cur_pos, cur_dir, VMStringStart>>
Fits(stack) == Len(stack) <= MaxStack /\ \A i \in DOMAIN stack : -MaxValue <= stack[i] /\ stack[i] <= MaxValue

\* The stack becomes `stack', nothing else but the position changes.
Becomes(stack) ==
  /\ Fits(stack)
  /\ app_stack' = stack /\ cur_dir' = cur_dir
  /\ Move
  /\ UNCHANGED <<VMStringStart, status>>

Turn(dir) ==
  /\ cur_dir' = dir
  /\ Move
  /\ UNCHANGED <<VMStringStart, status>>

InString ==
  /\ Running /\ VMStringStart /\ VMGetInstr # "quote"
  /\ Becomes(Append(app_stack, Ord[VMGetInstr]))

Quote ==
  /\ Running /\ VMGetInstr = "quote"
  /\ VMStringStart' = ~VMStringStart
  /\ UNCHANGED <<app_stack, cur_dir, status>>
  /\ Move

Digit == Instr(Digits) /\ Becomes(Append(app_stack, Ord[VMGetInstr] - Ord["0"]))

Calculate ==
  /\ Instr(Binary)
  /\ IF Size < 2 \/ (VMGetInstr \in {"/", "%"} /\ A = 0) THEN Die
     ELSE Becomes(Append(Below(2), ValueOf(VMGetInstr)))

Not == Instr({"!"}) /\ Becomes(Append(Rest, Flag(VMPop = 0)))

SetDirection == Instr(Directions) /\ Turn(VMGetInstr) /\ UNCHANGED app_stack
RandomDirection ==
  Instr({"?"}) /\ (\E dir \in Directions : Turn(dir)) /\ UNCHANGED app_stack

Branch ==
  /\ Instr({"_", "|"})
  /\ Turn(CASE VMGetInstr = "_" /\ VMPop = 0 -> ">"
            [] VMGetInstr = "_" /\ VMPop # 0 -> "<"
            [] VMGetInstr = "|" /\ VMPop = 0 -> "v"
            [] VMGetInstr = "|" /\ VMPop # 0 -> "^")
  /\ app_stack' = Rest

Duplicate == Instr({":"}) /\ Becomes(Rest \o <<VMPop, VMPop>>)
Swap == Instr({"backslash"}) /\ IF Size < 2 THEN Die ELSE Becomes(Below(2) \o <<A, B>>)
Drop == Instr({"$", "."}) /\ Becomes(Rest)
PrintChar == Instr({","}) /\ IF VMPop \in 0 .. 255 THEN Becomes(Rest) ELSE Die

\* The trampoline's move, and that of the loop from where it ends; a number has no
\* element to look at.
Trampoline ==
  /\ Instr({"#"})
  /\ LET next == VMNextDirection(cur_pos, cur_dir)
     IN  IF next = Number THEN Die
         ELSE /\ cur_pos' = VMNextDirection(next, cur_dir)
              /\ UNCHANGED <<app_stack, cur_dir, VMStringStart, status>>

PutGet == Instr({"p", "g"}) /\ Die

\* raw_input raises at the end of the input, and so does ord('').
InputEnds == Instr({"&", "~"}) /\ Die
InputNumber == Instr({"&"}) /\ \E n \in Numbers : Becomes(Append(app_stack, n))
InputChar == Instr({"~"}) /\ \E c \in Letters : Becomes(Append(app_stack, c))

End == Instr({"@"}) /\ status' = "end" /\ UNCHANGED <<app_stack, cur_pos, cur_dir, VMStringStart>>

Instructions ==
  Digits \cup Binary \cup Directions \cup
  {"!", "?", "_", "|", "quote", ":", "backslash", "$", ".", ",", "#", "p", "g", "&", "~", "@"}
Skip == Running /\ ~VMStringStart /\ VMGetInstr \notin Instructions /\ Becomes(app_stack)

\* VMGetInstr raises.
NoCell == status = "run" /\ ~IsCell(cur_pos) /\ Die

BefungeInit ==
  /\ opcode_matrix \in Sources
  /\ app_stack = <<>> /\ cur_pos = At(0, 0) /\ cur_dir = ">"
  /\ VMStringStart = FALSE /\ status = "run"

BefungeNext ==
  /\ \/ InString \/ Quote \/ Digit \/ Calculate \/ Not
     \/ SetDirection \/ RandomDirection \/ Branch
     \/ Duplicate \/ Swap \/ Drop \/ PrintChar \/ Trampoline \/ PutGet
     \/ InputEnds \/ InputNumber \/ InputChar \/ End \/ Skip \/ NoCell
  /\ UNCHANGED opcode_matrix

-----------------------------------------------------------------------------
(* Properties.                                                             *)

\* A torus: columns are numbers modulo the line's length, lines modulo their number,
\* and a line too short for the column is no part of it.
Distance(pos, sign) ==
  Min({k \in 1 .. Len(opcode_matrix) :
         pos.x < Len(Line((pos.y + sign * k) % Len(opcode_matrix)))})
Torus(pos, dir) ==
  CASE dir = ">" -> At((pos.x + 1) % Len(Line(pos.y)), pos.y)
    [] dir = "<" -> At((pos.x - 1) % Len(Line(pos.y)), pos.y)
    [] dir = "^" -> At(pos.x, (pos.y - Distance(pos, -1)) % Len(opcode_matrix))
    [] dir = "v" -> At(pos.x, (pos.y + Distance(pos, 1)) % Len(opcode_matrix))

\* The moves that leave it: up over the first line, and down over the last one where
\* the first is too short.
OverTheEdge(pos, dir) ==
  \/ dir = "^" /\ pos.y - Distance(pos, -1) < 0
  \/ dir = "v" /\ pos.y + Distance(pos, 1) >= Len(opcode_matrix) /\ pos.x >= Len(Line(0))

Moves == status = "run" /\ IsCell(cur_pos) /\ status' = "run" /\ (VMStringStart \/ VMGetInstr # "#")

\* A move of the interpreter is one on the torus, or it goes over the edge and leaves
\* no cell to fetch; the recursion of VMNextDirection (lines 47-80) asks lines for
\* their length only as long as it does not wrap.
MovesOnTorus ==
  [][ Moves => IF OverTheEdge(cur_pos, cur_dir') THEN ~IsCell(cur_pos')
                ELSE cur_pos' = Torus(cur_pos, cur_dir') ]_befungeVars
=============================================================================
