---------------------------- MODULE MCEvaluator ----------------------------
(* Small instances of Evaluator: the callables of a program.               *)
EXTENDS Evaluator

MCCallables ==
    { <<"subr">>, <<"nsubr">>, <<"lambda">>, <<"nlambda">>, <<"macro">>, <<"object">>,
      <<"thing">>, <<"method", "subr">>, <<"closure", "lambda">>, <<"closure", "object">>,
      <<"method", "closure", "lambda">>, <<"closure", "method", "macro">> }

MCMethods ==
    { <<"subr">>, <<"nsubr">>, <<"lambda">>, <<"nlambda">>, <<"macro">>,
      <<"closure", "lambda">>, <<"method", "macro">>, <<"new", "lambda">>, <<"new", "macro">>,
      <<"new", "thing">> }

MCFuncalled ==
    { <<"subr">>, <<"nsubr">>, <<"lambda">>, <<"nlambda">>, <<"macro">>, <<"object">>,
      <<"closure", "method", "subr">>, <<"method", "object">>, <<"new", "thing">> }

\* A closure around an object with call methods of its own.
MCTwice == { <<"closure", "object">> }

=============================================================================
