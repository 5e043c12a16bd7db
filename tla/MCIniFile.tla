----------------------------- MODULE MCIniFile ------------------------------
EXTENDS IniFile

CONSTANTS ip, ipmask

\* One key that begins like another, and none.
MCPrefixes == {<<ip, ipmask>>}
NoPrefixes == {}

\* Without prefixes, names are only compared.
Symmetry == Permutations(Sections) \cup Permutations(Keys)
=============================================================================
