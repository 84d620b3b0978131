SPECIFICATION Spec
CONSTANT Programs <- MCPrograms
PROPERTY Ends
