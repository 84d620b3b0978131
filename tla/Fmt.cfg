SPECIFICATION Spec
CONSTANTS Layouts <- MCLayouts
          Comments <- MCComments
          Tall <- MCTall
INVARIANTS TextIntact CommentsStay IdempotentButElse
CHECK_DEADLOCK FALSE
