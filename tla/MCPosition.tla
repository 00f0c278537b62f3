----------------------------- MODULE MCPosition -----------------------------
EXTENDS PositionReader
MCChanges == {<<1>>, <<-1>>, <<-2>>, <<0>>, <<-1, -1>>}
MCUnreadable == {{}, {1, 2}}
NotPriced == -1
=============================================================================
