---------------------------- MODULE OptionParser ----------------------------
(***************************************************************************)
(* parse_options of hadoken (getopts/getopts.hpp, getopts/impl): a first   *)
(* pass over the arguments without callbacks, then one with them.          *)
(*                                                                         *)
(* An argument is what the parser tells apart of it: its key, before the   *)
(* first '=', and its value, after it, or NoValue.                         *)
(*                                                                         *)
(* An options_handler is a record                                          *)
(*   options      sequence of [names, kind], kind "none", "int" or "str"   *)
(*   subs         sequence of [name, handler], each a handler of its name  *)
(*   only_subcmd, no_help    the flags                                     *)
(*   positional   whether it handles positional arguments                  *)
(* and cli has the handlers by name, root for the one that is passed, and  *)
(* the set of the callbacks that throw.                                    *)
(*                                                                         *)
(* The handler around the first pass is left out: it adds to the text of   *)
(* the error and throws it again.  For an error without a subcommand stack *)
(* it forms begin() + 1 of an empty vector (getopts_impl.hpp:391), which   *)
(* is undefined; its loop does not run then in practice.                   *)
(*                                                                         *)
(* Contract: no subcommand has an empty name (an invalid_argument).        *)
(***************************************************************************)
EXTENDS Integers, Sequences, SequencesExt

CONSTANTS
  Numbers,   \* keys that std::stoi reads: a number and anything behind it
  Dashed     \* keys that begin with '-'

NoValue == "no value"
Argument(key) == [key |-> key, value |-> NoValue]
Assignment(key, value) == [key |-> key, value |-> value]

Help == Argument("--help")
EndOfArguments == Argument("--")

-----------------------------------------------------------------------------
(* How a handler is built. *)

NewHandler ==
  [options |-> <<>>, subs |-> <<>>, only_subcmd |-> FALSE, no_help |-> FALSE,
   positional |-> FALSE]

AddOption(handler, option) == [handler EXCEPT !.options = Append(@, option)]
AddSubcommand(handler, name) ==
  [handler EXCEPT !.subs = Append(@, [name |-> name, handler |-> name])]
SetPositionalArgumentHandler(handler) == [handler EXCEPT !.positional = TRUE]
SetFlags(handler, flag, v) == [handler EXCEPT ![flag] = v]

\* An option whose callback takes nothing, an int or a string.
NewOption(name, kind) == [names |-> <<name>>, kind |-> kind]
AddAlias(option, alias) == [option EXCEPT !.names = Append(@, alias)]

-----------------------------------------------------------------------------
IsPrefixedOption(argument) == argument.key \in Dashed

Match(option, argument) == \E n \in DOMAIN option.names : option.names[n] = argument.key

-----------------------------------------------------------------------------
(* A pass: the error it ends with and the callbacks it has called, each    *)
(* with its handler, the option or subcommand and what it is given.        *)

NoError == "none"
Started == [error |-> NoError, calls |-> <<>>]
Fail(pass, error) == [pass EXCEPT !.error = error]

\* A callback whose turn has come; error is what its exception becomes.
Callback(cli, pass, call, callback, error) ==
  IF ~call THEN pass
  ELSE IF [handler |-> callback.handler, name |-> callback.name] \in cli.throwing
  THEN Fail(pass, error)
  ELSE [pass EXCEPT !.calls = Append(@, callback)]

\* A value that is not stepped over.
ValueLeftInPlace(args, begin_arg) ==
  IF args[begin_arg].value # NoValue
  THEN [found |-> TRUE, value |-> Argument(args[begin_arg].value), next |-> begin_arg + 1]
  ELSE IF begin_arg + 1 > Len(args)
  THEN [found |-> FALSE, value |-> Argument(NoValue), next |-> begin_arg]
  ELSE [found |-> TRUE, value |-> args[begin_arg + 1], next |-> begin_arg + 1]

\* The value after the '=', or else the next argument.
NextArgument(args, begin_arg) ==
  IF args[begin_arg].value # NoValue
  THEN [found |-> TRUE, value |-> Argument(args[begin_arg].value), next |-> begin_arg + 1]
  ELSE IF begin_arg + 1 > Len(args)
  THEN [found |-> FALSE, value |-> Argument(NoValue), next |-> begin_arg]
  ELSE [found |-> TRUE, value |-> args[begin_arg + 1], next |-> begin_arg + 2]

\* An int that is converted for the callback only.
ConvertedLate(cli, pass, call, handler, option, argument) ==
  LET callback == [handler |-> handler, name |-> Head(option.names), value |-> argument.value]
  IN  CASE ~argument.found -> Fail(pass, "missing value")
        [] argument.found /\ option.kind = "int" ->
             IF call /\ argument.value.key \notin Numbers THEN Fail(pass, "invalid value")
             ELSE Callback(cli, pass, call, callback, "invalid value")
        [] argument.found /\ option.kind = "str" ->
             IF IsPrefixedOption(argument.value) THEN Fail(pass, "invalid option argument")
             ELSE Callback(cli, pass, call, callback, "invalid value")

\* _call_next_argument_int and _call_next_argument_string
CallNextArgument(cli, pass, call, handler, option, argument) ==
  LET callback == [handler |-> handler, name |-> Head(option.names), value |-> argument.value]
  IN  CASE ~argument.found -> Fail(pass, "missing value")
        [] argument.found /\ option.kind = "int" ->
             IF argument.value.key \notin Numbers THEN Fail(pass, "invalid value")
             ELSE Callback(cli, pass, call, callback, "invalid value")
        [] argument.found /\ option.kind = "str" ->
             IF IsPrefixedOption(argument.value) THEN Fail(pass, "invalid option argument")
             ELSE Callback(cli, pass, call, callback, "invalid value")

\* opt_handler._call_positional, in the pass with callbacks only.
CallPositional(cli, pass, call, handler, argument) ==
  IF call /\ ~cli.handlers[handler].positional THEN Fail(pass, "invalid positional argument")
  ELSE Callback(cli, pass, call,
                [handler |-> handler, name |-> "positional", value |-> argument], "callback")

\* One call of _validate_and_call, before it calls itself: handler is the last
\* of the stack.  It does not when pass has an error or there are no arguments.
Proceed(cli, call, args, pass, handler, begin_arg) ==
  LET opt_handler == cli.handlers[handler]
      argument == args[begin_arg]
      subs == {n \in DOMAIN opt_handler.subs : argument = Argument(opt_handler.subs[n].name)}
      sub == opt_handler.subs[Min(subs)]
      options == {n \in DOMAIN opt_handler.options : Match(opt_handler.options[n], argument)}
      option == opt_handler.options[Min(options)]
      next == NextArgument(args, begin_arg)
      WithoutValue(name) == [handler |-> handler, name |-> name, value |-> Argument(NoValue)]
      GoOn(after, in, from) == [pass |-> after, handler |-> in, begin_arg |-> from]
      Stop(error) == GoOn(Fail(pass, error), handler, begin_arg)
  IN  IF pass.error # NoError \/ begin_arg > Len(args) THEN GoOn(pass, handler, begin_arg)
      ELSE IF argument = EndOfArguments THEN GoOn(pass, handler, begin_arg + 1)
      ELSE IF subs # {}
      THEN GoOn(Callback(cli, pass, call, WithoutValue(sub.name), "callback"),
                sub.handler, begin_arg + 1)
      ELSE IF ~IsPrefixedOption(argument)
      THEN GoOn(CallPositional(cli, pass, call, handler, argument), handler, begin_arg + 1)
      ELSE IF argument = Help /\ ~opt_handler.no_help THEN Stop("help")
      ELSE IF options = {} THEN Stop("not supported")
      ELSE IF option.kind = "none"
      THEN GoOn(Callback(cli, pass, call, WithoutValue(Head(option.names)), "callback"),
                handler, begin_arg + 1)
      ELSE GoOn(CallNextArgument(cli, pass, call, handler, option, next), handler, next.next)

\* _validate_and_call from the first argument on.  Every call steps over an
\* argument at least.
ValidateAndCall(cli, call, args) ==
  LET state[n \in 0..Len(args)] ==
        IF n = 0 THEN [pass |-> Started, handler |-> cli.root, begin_arg |-> 1]
        ELSE LET before == state[n - 1]
             IN  Proceed(cli, call, args, before.pass, before.handler, before.begin_arg)
      last == state[Len(args)]
  IN  IF last.pass.error = NoError /\ cli.handlers[last.handler].only_subcmd
      THEN Fail(last.pass, "no subcommand") ELSE last.pass

\* parse_options: what has been called, and the error that is thrown.
ParseOptions(cli, args) ==
  LET dry_run == ValidateAndCall(cli, FALSE, args)
  IN  IF dry_run.error # NoError THEN dry_run
      ELSE ValidateAndCall(cli, TRUE, args)
=============================================================================
