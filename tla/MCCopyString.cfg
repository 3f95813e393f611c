\* An array of four bytes and strings of up to nine: the cut falls before,
\* after and at every byte of a character.
CONSTANTS
  N = 4
  Character <- MCCharacter
  Strings <- MCStrings
SPECIFICATION CopySpec
INVARIANTS
  AlwaysTerminated
  NeverMixed
  KeepsWholeCharacters
  KeyIsFound
PROPERTIES
  SetsAnAttribute
