------------------------------ MODULE MCHttpText ------------------------------
EXTENDS HttpText

MCSymbols == {"name", "=", "&", "GET", "data", "?", " ", "HTTP", "v", "k", "x"}
MCValues == BoundedSeq({"v", "="}, 2)
MCKeys == BoundedSeq({"k", "="}, 2)
MCTypings == BoundedSeq({"k", " ", "?"}, 3)
MCTails == {<< >>, <<"&", "name", "=", "x">>, <<"&", "x", "&">>}
=============================================================================
