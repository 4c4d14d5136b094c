----------------------------- MODULE CommandLine ----------------------------
(***************************************************************************)
(* The parser of a command line (Engine and its StandardParser of          *)
(* brick-commandline.h).  An engine takes the switches it knows out of the *)
(* list of words, wherever they stand, then hands the rest to the engine   *)
(* of the command it finds there.                                          *)
(***************************************************************************)
EXTENDS Integers, Sequences, FiniteSets, FiniteSetsExt, SequencesExt

CONSTANTS Roots,   \* which of the parsers below
          MaxWords \* bound: words on the line

VARIABLES root,    \* the parser that is called
          strict,  \* no_switches_after_first_arg
          partial, \* partial_matching
          line,    \* the words as they were typed
          args,    \* ArgList: what is left of them, each with its place in the line
          engine,  \* the engine that parses
          cur,     \* its iterator
          phase,   \* how far it is
          found,   \* m_found_command
          options, \* option |-> is it set, and where its value was found
          used,    \* history: which words went where
          outcome  \* what the caller of parse is told

vars == <<root, strict, partial, line, args, engine, cur, phase, found, options, used, outcome>>

-----------------------------------------------------------------------------
(* A word is a cluster of letters, a long name with or without "=value",    *)
(* "--", or neither: a name or value.                                       *)
Cluster(letters) == [kind |-> "cluster", letters |-> letters, name |-> "", arg |-> FALSE]
Long(name, arg) == [kind |-> "long", letters |-> <<>>, name |-> name, arg |-> arg]
Plain(name) == [kind |-> "plain", letters |-> <<>>, name |-> name, arg |-> FALSE]
End == [kind |-> "end", letters |-> <<>>, name |-> "--", arg |-> FALSE]
isSwitch(word) == word.kind \in {"cluster", "long"}

(* The engines of the repository's tests and of its demo; "twice" is one    *)
(* more, that maps a letter twice.                                          *)
Engines ==
  [engine1  |-> [short |-> {<<"a", "antani">>, <<"b", "blinda">>},
                 long |-> {<<"antani", "antani">>, <<"an-tani", "antani">>, <<"blinda", "blinda">>},
                 commands |-> {}],
   engine2  |-> [short |-> {<<"h", "help">>}, long |-> {<<"help", "help">>},
                 commands |-> {<<"scramble", "scramble">>, <<"mess", "scramble">>, <<"twice", "twice">>}],
   scramble |-> [short |-> {<<"r", "random">>, <<"y", "yell">>},
                 long |-> {<<"random", "random">>, <<"yell", "yell">>, <<"helper", "random">>},
                 commands |-> {}],
   twice    |-> [short |-> {<<"q", "random">>, <<"q", "antani">>}, long |-> {}, commands |-> {}],
   standard |-> [short |-> {<<"h", "help">>},
                 long |-> {<<"help", "help">>, <<"version", "version">>, <<"manpage", "manpage">>},
                 commands |-> {<<"help", "helpCommand">>, <<"grep", "grep">>}],
   helpCommand |-> [short |-> {}, long |-> {}, commands |-> {}],
   grep     |-> [short |-> {<<"o", "output">>}, long |-> {<<"output", "output">>}, commands |-> {}]]
Completions == [an |-> {"antani", "an-tani"}, bl |-> {"blinda"}, ye |-> {"yell"}, he |-> {"help", "helper"}]

(* BoolOption and SingleOption; StandardParser makes --manpage one of the   *)
(* latter.                                                                  *)
Kinds == [antani |-> "flag", blinda |-> "value", help |-> "flag", random |-> "flag",
          yell |-> "value", version |-> "flag", manpage |-> "value", output |-> "value"]

Vocabulary ==
  [engine1 |-> {Cluster(<<"a">>), Cluster(<<"b">>), Cluster(<<"b", "a">>), Cluster(<<"a", "x">>),
                Long("an-tani", FALSE), Long("an", FALSE), Long("bl", TRUE), Long("blinda", FALSE),
                Plain("foo"), End},
   engine2 |-> {Cluster(<<"h">>), Cluster(<<"r", "h">>), Cluster(<<"y">>), Long("he", FALSE),
                Long("yell", TRUE), Long("ye", TRUE), Plain("mess"), Plain("twice"), Plain("foo"), End},
   standard |-> {Cluster(<<"h">>), Long("version", FALSE), Long("manpage", FALSE), Long("manpage", TRUE),
                 Plain("help"), Plain("grep"), Plain("foo"), Cluster(<<"o">>), End}]

Unset == [set |-> FALSE, value |-> 0]
Init ==
  /\ root \in Roots /\ strict \in BOOLEAN /\ partial \in BOOLEAN
  /\ line \in UNION {[1..n -> Vocabulary[root]] : n \in 0..MaxWords}
  /\ args = [i \in DOMAIN line |-> [at |-> i, word |-> line[i]]]
  /\ engine = root /\ cur = 1 /\ phase = "rebuild" /\ found = "none" /\ outcome = "none"
  /\ options = [o \in DOMAIN Kinds |-> Unset] /\ used = {}

-----------------------------------------------------------------------------
It == Engines[engine]
Mapped(table, name) == {e \in table : e[1] = name}
OptionOf(table, name) == (CHOOSE e \in table : e[1] = name)[2]

(* rebuild: what is mapped twice is found when the engine comes to parse.   *)
Rebuild ==
  /\ phase = "rebuild"
  /\ phase' = IF \E d, e \in It.short \cup It.long : d[1] = e[1] /\ d # e THEN "api" ELSE "first"
  /\ UNCHANGED <<args, engine, cur, found, options, used, outcome>>

(* _partialMatches: the only name that goes on like this one.               *)
Completion(name) ==
  LET all == {e \in It.long : name \in DOMAIN Completions /\ e[1] \in Completions[name]}
  IN IF partial /\ Cardinality(all) = 1 THEN all ELSE {}
Known(word) ==
  IF word.kind = "cluster" THEN Mapped(It.short, Head(word.letters))
  ELSE LET exact == Mapped(It.long, word.name)
       IN IF exact # {} THEN exact ELSE Completion(word.name)

Uses(at, as, of) == [at |-> at, as |-> as, of |-> of, by |-> engine]

(* A letter that wants a value takes the next word, whatever it is, and     *)
(* leaves the rest of its cluster for the next turn; a long switch has its  *)
(* value with it.                                                           *)
TakeFrom(o, place, without) ==
  LET this == args[cur]
      rest == [this EXCEPT !.word.letters = Tail(@)]
      Own(list) == IF rest.word.letters = <<>> THEN RemoveAt(list, cur) ELSE [list EXCEPT ![cur] = rest]
  IN IF Kinds[o] = "flag"
     THEN /\ options' = [options EXCEPT ![o].set = TRUE]
          /\ args' = Own(args)
          /\ used' = used \cup {Uses(this.at, "switch", this.at)} /\ UNCHANGED phase
     ELSE IF cur = Len(args) THEN phase' = "bad" /\ UNCHANGED <<args, options, used>>
     ELSE /\ options' = [options EXCEPT ![o] = [set |-> TRUE, value |-> args[place].at]]
          /\ args' = Own(without)
          /\ used' = used \cup {Uses(this.at, "switch", this.at), Uses(args[place].at, "value", this.at)}
          /\ UNCHANGED phase
TakeLetter(o) == TakeFrom(o, cur + 1, RemoveAt(args, cur + 1))
TakeLong(o) ==
  LET this == args[cur]
  IN IF Kinds[o] = "value" /\ ~this.word.arg THEN phase' = "bad" /\ UNCHANGED <<args, options, used>>
     ELSE /\ options' = [options EXCEPT
                ![o] = [set |-> TRUE, value |-> IF Kinds[o] # "flag" /\ this.word.arg THEN this.at ELSE @.value]]
          /\ args' = RemoveAt(args, cur)
          /\ used' = used \cup {Uses(this.at, "switch", this.at)} /\ UNCHANGED phase

(* parseFirstIfKnown.                                                       *)
Handle == \E e \in Known(args[cur].word) :
            IF args[cur].word.kind = "cluster" THEN TakeLetter(e[2]) ELSE TakeLong(e[2])
Handled == cur <= Len(args) /\ isSwitch(args[cur].word) /\ Known(args[cur].word) # {}

(* parseKnownSwitches: first those at the front, up to one that is not      *)
(* known; then, unless it is strict, all others.                            *)
Strict == strict /\ engine = root
First ==
  /\ phase = "first"
  /\ IF Handled THEN Handle /\ UNCHANGED cur
     ELSE /\ phase' = IF Strict \/ cur > Len(args) THEN "command" ELSE "rest"
          /\ UNCHANGED <<args, cur, options, used>>
  /\ UNCHANGED <<engine, found, outcome>>
Rest ==
  /\ phase = "rest"
  /\ IF Handled THEN Handle /\ UNCHANGED cur
     ELSE /\ phase' = IF cur > Len(args) THEN "command" ELSE "rest"
          /\ cur' = IF cur > Len(args) THEN cur ELSE cur + 1
          /\ UNCHANGED <<args, options, used>>
  /\ UNCHANGED <<engine, found, outcome>>

(* The first word that is not a switch is the command.                      *)
Command ==
  /\ phase = "command"
  /\ LET words == {i \in DOMAIN args : ~isSwitch(args[i].word)}
         cmd == Min(words)
         engines == Mapped(It.commands, args[cmd].word.name)
     IN IF It.commands = {} \/ words = {}
        THEN phase' = "check" /\ UNCHANGED <<args, engine, cur, found, used>>
        ELSE IF engines = {} THEN phase' = "bad" /\ UNCHANGED <<args, engine, cur, found, used>>
        ELSE /\ engine' = OptionOf(It.commands, args[cmd].word.name) /\ found' = engine'
             /\ phase' = "rebuild" /\ cur' = 1
             /\ args' = RemoveAt(args, cmd) /\ used' = used \cup {Uses(args[cmd].at, "command", 0)}
  /\ UNCHANGED <<options, outcome>>

(* No switch may be left before "--", which goes when it is the first word. *)
Check ==
  /\ phase = "check"
  /\ LET stops == {i \in DOMAIN args : args[i].word.kind # "plain" \/ Strict}
     IN IF stops # {} /\ isSwitch(args[Min(stops)].word) THEN phase' = "bad" /\ UNCHANGED <<args, used>>
        ELSE /\ phase' = "parsed"
             /\ IF stops # {} /\ Min(stops) = 1 /\ args[1].word = End
                THEN args' = Tail(args) /\ used' = used \cup {Uses(args[1].at, "end", 0)}
                ELSE UNCHANGED <<args, used>>
  /\ UNCHANGED <<engine, cur, found, options, outcome>>

(* The standard parser answers some lines itself; the help command asks for *)
(* the name of a command of the parser.                                     *)
Standard ==
  /\ phase = "parsed" /\ phase' = "over"
  /\ outcome' = IF root # "standard" THEN "caller"
                ELSE IF \E o \in {"help", "version", "manpage"} : options[o].set THEN "answered"
                ELSE IF found = "none" THEN "answered"
                ELSE IF found # "helpCommand" THEN "caller"
                ELSE IF args = <<>> THEN "answered"
                ELSE IF Mapped(Engines[root].commands, args[1].word.name) = {} THEN "error" ELSE "answered"
  /\ args' = IF outcome' \in {"answered", "error"} /\ found = "helpCommand" /\ args # <<>>
                /\ ~\E o \in {"help", "version", "manpage"} : options[o].set
             THEN Tail(args) ELSE args
  /\ UNCHANGED <<engine, cur, found, options, used>>

Next == /\ Rebuild \/ First \/ Rest \/ Command \/ Check \/ Standard
        /\ UNCHANGED <<root, strict, partial, line>>
Spec == Init /\ [][Next]_vars

-----------------------------------------------------------------------------
Left == {args[i].at : i \in DOMAIN args}
Used == {u.at : u \in used}

TypeOK == /\ cur \in 1..(MaxWords + 1) /\ engine \in DOMAIN Engines
          /\ phase \in {"rebuild", "first", "rest", "command", "check", "bad", "api", "parsed", "over"}
          /\ outcome \in {"none", "answered", "caller", "error"}

(* A line that is accepted is used up word by word: what no engine took is  *)
(* left, in its order, and no word is the value of two switches or both a   *)
(* value and a command.                                                     *)
NothingLost ==
  phase = "parsed" =>
    /\ Left \cup Used = DOMAIN line
    /\ \A i, j \in DOMAIN args : i < j => args[i].at < args[j].at
    /\ \A u, v \in used : u.at = v.at /\ u.as # "switch" /\ v.as # "switch" => u = v
    /\ \A i \in DOMAIN args : \A u \in used : u.at = args[i].at => u.as = "switch"

(* Nothing that is left stands between a switch and the value it took.      *)
ValueFollows == \A u \in used : u.as = "value" => \A i \in Left : ~(u.of < i /\ i < u.at)

(* parse leaves only arguments, and what follows "--" or, if it is strict,  *)
(* the first argument.                                                      *)
NoSwitchLeft ==
  phase = "parsed" => \A i \in DOMAIN args :
    isSwitch(args[i].word) => \E j \in 1..i : args[j].word = End \/ (~isSwitch(args[j].word) /\ Strict)
                                              \/ \E u \in used : u.as = "end"

(* A long switch that the engine of a command took was not one that the     *)
(* engine above knew, by its name or by the only name that begins with it.  *)
LongNames(e) == {o[1] : o \in Engines[e].long}
HigherFirst ==
  \A u \in used : u.as = "switch" /\ u.by # root /\ line[u.at].kind = "long" /\ ~strict =>
    LET name == line[u.at].name IN
    /\ name \notin LongNames(root)
    /\ partial /\ name \in DOMAIN Completions => Cardinality(Completions[name] \cap LongNames(root)) # 1

(* When the standard parser leaves a line to its caller, there is a command *)
(* to carry out, that is not help.                                          *)
CallerActs == outcome = "caller" /\ root = "standard" => found \notin {"none", "helpCommand"}
=============================================================================
