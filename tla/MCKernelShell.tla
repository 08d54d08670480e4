-------------------------- MODULE MCKernelShell --------------------------
(***************************************************************************)
(* Values of the constants of KernelShell for TLC: ints of 24 values.        *)
(***************************************************************************)
EXTENDS KernelShell

MCInts == -12 .. 11

MCBatches == 1 .. 5

ProcessLines ==
  {<<"mkproc">>, <<"mkproc", " ", "-", "1">>,
   <<"mkthr">>, <<" ", "mkthr", " ", " ", "1", " ", "2">>,
   <<"mkthr", " ", "1", "2", " ", "2", "3">>,
   <<"sched">>, <<"sched", " ", "9">>, <<"sched", " ", "-", "1">>,
   <<"proclist">>, <<"policy">>, <<"policy", " ", "rr">>,
   <<"policy", " ", "psjf">>, <<"policy", " ", "x">>}

Line(x, op, y) == <<"calc", " ">> \o x \o <<" ", op, " ">> \o y

\* Numbers in the range, at its ends and beyond it, and one that is none.
CalcLines ==
  {Line(<<"7">>, "+", <<"4">>), Line(<<"7">>, "-", <<"1", "1">>),
   Line(<<"-", "3">>, "*", <<"4">>), Line(<<"1", "1">>, "+", <<"1">>),
   Line(<<"-", "1", "1">>, "/", <<"2">>), Line(<<"7">>, "/", <<"-", "8">>),
   Line(<<"7">>, "/", <<"0">>), Line(<<"-", "1", "2">>, "/", <<"-", "1">>),
   Line(<<"1", "2">>, "/", <<"2", "3">>), Line(<<"7">>, "x", <<"7">>),
   Line(<<"2", "x">>, "*", <<"x">>)}

MCLines ==
  ProcessLines \cup CalcLines
    \cup {<<>>, <<" ">>, <<"x">>, <<"calc", " ", "7">>,
          <<"calc", " ", "7", " ", "+", " ", "7", " ", "x">>}
=============================================================================
