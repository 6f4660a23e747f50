SPECIFICATION Spec
INVARIANTS
  UintExact
  
  
  MessagesReadBack
  TreeIsExact
