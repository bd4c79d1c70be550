---------------------------- MODULE CommandLine ----------------------------
(***************************************************************************)
(* How the server cuts a command into its name and arguments               *)
(* (command/parse.go extractArgs), one character per step: white space     *)
(* separates them, except between backquotes, which are dropped.  Every    *)
(* other character stands for itself, so one is enough here.               *)
(***************************************************************************)
EXTENDS Naturals, SequencesExt

CONSTANTS MaxText   \* bound: characters of a command

Quote == "quote"
Space == "space"
Commands == SeqOf({Quote, Space, "x"}, MaxText)

VARIABLES
  val,       \* the command
  read,      \* characters dealt with; one more when the loop is left
  args,
  buf,
  inQuote

command == <<val, read, args, buf, inQuote>>

(* White space after nothing is kept.                                      *)
SplitsInQuotes == buf # <<>>
Splits == ~inQuote /\ buf # <<>>
BufferKept == buf
Reset == <<>>

CommandInit ==
  /\ val \in Commands
  /\ read = 0
  /\ args = <<>> /\ buf = <<>>
  /\ inQuote = FALSE

Rune(r) ==
  /\ read < Len(val)
  /\ val[read + 1] = r
  /\ read' = read + 1
  /\ UNCHANGED val

Toggle ==
  /\ Rune(Quote)
  /\ inQuote' = ~inQuote
  /\ UNCHANGED <<args, buf>>

Split ==
  /\ Rune(Space)
  /\ Splits
  /\ args' = Append(args, buf)
  /\ buf' = Reset
  /\ UNCHANGED inQuote

WriteRune(r) ==
  /\ Rune(r)
  /\ r = Space => ~Splits
  /\ buf' = Append(buf, r)
  /\ UNCHANGED <<args, inQuote>>

LastArg ==
  /\ read = Len(val)
  /\ read' = read + 1
  /\ args' = IF buf = <<>> THEN args ELSE Append(args, buf)
  /\ buf' = Reset
  /\ UNCHANGED <<val, inQuote>>

CommandNext == Toggle \/ Split \/ WriteRune(Space) \/ WriteRune("x") \/ LastArg

CommandSpec == CommandInit /\ [][CommandNext]_command

-----------------------------------------------------------------------------
(* A text without the characters of D; what is left of a word and of the   *)
(* whole command.                                                          *)
Without(s, D) ==
  LET kept[i \in 0 .. Len(s)] ==
        IF i = 0 THEN <<>>
        ELSE IF s[i] \in D THEN kept[i - 1] ELSE Append(kept[i - 1], s[i])
  IN kept[Len(s)]
Bare(s) == Without(s, {Quote})
Text(s) == Without(s, {Quote, Space})

(* The words of a command, read off the positions of its separators: a     *)
(* word lies between two of them, or the ends, with none in between.       *)
Quoted(i)      == Cardinality({j \in 1 .. i : val[j] = Quote}) % 2 = 1
Separators     == {i \in DOMAIN val : val[i] = Space /\ ~Quoted(i)}
Starts         == Separators \cup {0}
Ends           == Separators \cup {Len(val) + 1}
Adjacent(a, b) == a < b /\ \A c \in Separators : ~(a < c /\ c < b)
Word(a, b)     == Bare(SubSeq(val, a + 1, b - 1))
Number(b)      == Cardinality({c \in Separators : c < b}) + 1
Neat == \A a \in Starts, b \in Separators : Adjacent(a, b) => Word(a, b) # <<>>

(* The arguments of a command with one space between words are its words,  *)
(* in order and whatever is quoted in them (parse.go:65-88).               *)
ArgsAreWords ==
  read > Len(val) /\ Neat =>
    \A a \in Starts, b \in Ends : Adjacent(a, b) =>
      /\ Word(a, b) # <<>> => Number(b) \in DOMAIN args /\ args[Number(b)] = Word(a, b)
      /\ b = Len(val) + 1 =>
           Len(args) = IF Word(a, b) = <<>> THEN Number(b) - 1 ELSE Number(b)

(* No command, however it is spaced and quoted, loses a character other    *)
(* than a backquote or white space on the way, none is given out twice and *)
(* none changes its place (parse.go:65-88).                                *)
ArgsLoseNothing ==
  Text(FlattenSeq(args) \o buf) =
    Text(SubSeq(val, 1, IF read < Len(val) THEN read ELSE Len(val)))
=============================================================================
