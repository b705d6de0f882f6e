------------------------------ MODULE MCBackup ------------------------------
EXTENDS Backup

\* This system, one of the same minor version, an older one, a newer one and
\* one too old for upgrade.sh.
v218 == <<2, 1, 8>>
SomeVersions == {<<1, 4, 20>>, <<2, 0, 3>>, v218, <<2, 1, 9>>, <<2, 2, 0>>}

Kept(v, t) == [tag |-> t, marker |-> v, port |-> 445, hw |-> "old", format |-> v]
SomeArchives ==
  {Kept(<<2, 0, 3>>, 1), Kept(<<2, 1, 9>>, NoDate), Kept(<<1, 4, 20>>, -1), Kept(<<2, 2, 0>>, -2)}
=============================================================================
